---- MODULE Spec2Model ----
(***************************************************************************)
(* Model of the DID document patch engine of vercre/did                    *)
(* (crates/did-core/src/document/patch.rs): the patch data model, the      *)
(* validating patch Builder and DidDocument::apply_patches with its        *)
(* relationship bookkeeping (VmRelationshipSet).                           *)
(*                                                                         *)
(* Option<T> is modelled as a sequence of length 0 (None) or 1 (Some(x)),  *)
(* Vec<T> as a sequence, a struct as a record with the source's field      *)
(* names, an enum value as the string of its variant name.                 *)
(***************************************************************************)
EXTENDS Integers, Sequences, FiniteSets, TLC

VARIABLES
    doc,        \* the DidDocument apply_patches mutates in place
    prev,       \* the document as it was when the last call was made
    patches,    \* the patch list of the last call (&[Patch])
    applied,    \* number of patches supplied so far, over all calls
    idx,        \* apply_patches loop: 1-based position of the iterator in patches
    pc,         \* apply_patches loop: "idle", "loop" (in the for) or "done"
    constructed, \* the action given to Patch::builder
    builder,    \* the patch Builder under construction
    call,       \* the last Builder call: its name, argument and result
    accepted,   \* the arguments of the Builder's successful setter calls, in order
    reg,        \* the last call of the did:web registrar: its name, arguments and result
    ser,        \* a single-or-list field: its type, value, wire form and what is read back
    oper        \* the last call of DidKey::create or DidJwk::create and its result

vars == <<doc, prev, patches, applied, idx, pc, constructed, builder, call, accepted,
          reg, ser, oper>>

\* the variables of the document and of the apply_patches loop
engineVars == <<doc, prev, patches, applied, idx, pc>>

\* the variables of the Builder
builderVars == <<constructed, builder, call, accepted>>

\* the variables of the registrar and of the single-or-list codec
registrarVars == <<reg>>

codecVars == <<ser>>

operatorVars == <<oper>>

----------------------------------------------------------------------------
(* Option<T> *)

None == <<>>

Some(x) == <<x>>

IsSome(o) == o # <<>>

Unwrap(o) == o[1]

\* Option<Vec<T>>::unwrap_or_default
UnwrapOrDefault(o) == IF o = <<>> THEN <<>> ELSE o[1]

\* Total number of patches supplied over one run of the model (all calls).
MaxPatches == 2

\* Most services one Builder is given.
MaxServices == 2

\* the longest single-or-list value and the longest array on the wire
MaxLen == 2

----------------------------------------------------------------------------
(* Data model *)

Action == {"Replace", "AddPublicKeys", "RemovePublicKeys", "AddServices",
           "RemoveServices"}

KeyPurpose == {"Authentication", "AssertionMethod", "KeyAgreement",
               "CapabilityDelegation", "CapabilityInvocation"}

\* A VerificationMethod: its id and the rest of its content (controller, type
\* and key material), which the engine clones and never reads.
VerificationMethod(id, key) == [id |-> id, public_key |-> key]

\* VmRelationship::from(&VerificationMethod): the by-reference entry of a method.
VmRelationshipFrom(vm) == [key_id |-> Some(vm.id), verification_method |-> None]

\* An embedded relationship entry: a full method and no key identifier.
VmRelationshipEmbedded(vm) == [key_id |-> None, verification_method |-> Some(vm)]

\* an equality that also matches an embedded method by its id
VmRelationshipEq_any_id(a, b) ==
    LET IdOf(e) == IF e.key_id # <<>> THEN e.key_id[1] ELSE e.verification_method[1].id
    IN IdOf(a) = IdOf(b)

\* PartialEq of VmRelationship: by key identifier only.
VmRelationshipEq(a, b) == a.key_id = b.key_id

Service(id, type) == [id |-> id, type_ |-> type]

VmWithPurpose(vm, purposes) == [verification_method |-> vm, purposes |-> purposes]

\* patch::Document, the payload of a Replace patch
PatchDocument(keys, services) == [public_keys |-> keys, services |-> services]

Patch(action, document, services, ids, keys) ==
    [action |-> action, document |-> document, services |-> services,
     ids |-> ids, public_keys |-> keys]

\* Patch::default()
PatchDefault == Patch("Replace", None, None, None, None)

\* DidDocument::default()
DidDocumentDefault ==
    [id |-> "", context |-> <<>>, controller |-> None, also_known_as |-> None,
     verification_method |-> None, authentication |-> None,
     assertion_method |-> None, key_agreement |-> None,
     capability_delegation |-> None, capability_invocation |-> None,
     service |-> None]

----------------------------------------------------------------------------
(* VmRelationshipSet *)

VmRelationshipSetDefault ==
    [authentication |-> <<>>, assertion_method |-> <<>>, key_agreement |-> <<>>,
     capability_delegation |-> <<>>, capability_invocation |-> <<>>]

\* impl From<DidDocument> for VmRelationshipSet
VmRelationshipSetFrom(d) ==
    [authentication |-> UnwrapOrDefault(d.authentication),
     assertion_method |-> UnwrapOrDefault(d.assertion_method),
     key_agreement |-> UnwrapOrDefault(d.key_agreement),
     capability_delegation |-> UnwrapOrDefault(d.capability_delegation),
     capability_invocation |-> UnwrapOrDefault(d.capability_invocation)]

\* a push that files every reference under authentication
push_wrong_category(set, purpose, vm_ref) ==
    [set EXCEPT !.authentication = Append(@, vm_ref)]

\* a push that skips a reference the set holds already under the purpose
push_unless_present(set, purpose, vm_ref) ==
    LET c == CASE purpose = "Authentication" -> "authentication"
               [] purpose = "AssertionMethod" -> "assertion_method"
               [] purpose = "KeyAgreement" -> "key_agreement"
               [] purpose = "CapabilityDelegation" -> "capability_delegation"
               [] purpose = "CapabilityInvocation" -> "capability_invocation"
    IN IF \E i \in 1..Len(set[c]) : set[c][i] = vm_ref
       THEN set ELSE [set EXCEPT ![c] = Append(@, vm_ref)]

\* VmRelationshipSet::push
push(set, purpose, vm_ref) ==
    CASE purpose = "Authentication" ->
            [set EXCEPT !.authentication = Append(@, vm_ref)]
      [] purpose = "AssertionMethod" ->
            [set EXCEPT !.assertion_method = Append(@, vm_ref)]
      [] purpose = "KeyAgreement" ->
            [set EXCEPT !.key_agreement = Append(@, vm_ref)]
      [] purpose = "CapabilityDelegation" ->
            [set EXCEPT !.capability_delegation = Append(@, vm_ref)]
      [] purpose = "CapabilityInvocation" ->
            [set EXCEPT !.capability_invocation = Append(@, vm_ref)]

\* Vec::retain(|a| a != vm_ref)
RetainNe(list, vm_ref) == SelectSeq(list, LAMBDA a : ~VmRelationshipEq(a, vm_ref))

\* a remove that forgets the two capability categories
remove_three_categories(set, vm_ref) ==
    [set EXCEPT !.authentication = RetainNe(@, vm_ref),
                !.assertion_method = RetainNe(@, vm_ref),
                !.key_agreement = RetainNe(@, vm_ref)]

\* VmRelationshipSet::remove
remove(set, vm_ref) ==
    [authentication |-> RetainNe(set.authentication, vm_ref),
     assertion_method |-> RetainNe(set.assertion_method, vm_ref),
     key_agreement |-> RetainNe(set.key_agreement, vm_ref),
     capability_delegation |-> RetainNe(set.capability_delegation, vm_ref),
     capability_invocation |-> RetainNe(set.capability_invocation, vm_ref)]

\* then_some without the emptiness test
ThenSomeAlways(list) == Some(list)

\* (!list.is_empty()).then_some(list.clone())
ThenSome(list) == IF list # <<>> THEN Some(list) ELSE None

\* a reload that writes every list back as Some, empty or not
reload_no_collapse(d, p) ==
    [d EXCEPT !.authentication = Some(p.authentication),
              !.assertion_method = Some(p.assertion_method),
              !.key_agreement = Some(p.key_agreement),
              !.capability_delegation = Some(p.capability_delegation),
              !.capability_invocation = Some(p.capability_invocation)]

\* DidDocument::reload_vm_relationships
reload_vm_relationships(d, p) ==
    [d EXCEPT !.authentication = ThenSome(p.authentication),
              !.assertion_method = ThenSome(p.assertion_method),
              !.key_agreement = ThenSome(p.key_agreement),
              !.capability_delegation = ThenSome(p.capability_delegation),
              !.capability_invocation = ThenSome(p.capability_invocation)]

----------------------------------------------------------------------------
(* The loops of apply_replace / apply_add_keys / apply_remove_keys *)

RECURSIVE PushPurposes(_, _, _, _)
\* for p in purposes { my_purp.push(*p, &vm_ref.clone()) }, from index j on
PushPurposes(set, purposes, vm_ref, j) ==
    IF j > Len(purposes) THEN set
    ELSE PushPurposes(push(set, purposes[j], vm_ref), purposes, vm_ref, j + 1)

RECURSIVE PushKeys(_, _, _)
\* for k in keys { ...; if let Some(purposes) = &k.purposes { ... } }, from index i on
PushKeys(set, keys, i) ==
    IF i > Len(keys) THEN set
    ELSE LET k == keys[i]
             vm_ref == VmRelationshipFrom(k.verification_method)
             next == IF IsSome(k.purposes)
                     THEN PushPurposes(set, Unwrap(k.purposes), vm_ref, 1)
                     ELSE set
         IN PushKeys(next, keys, i + 1)

RECURSIVE KeyMethods(_, _)
\* for k in keys { vm.push(k.verification_method.clone()) }, from index i on
KeyMethods(keys, i) ==
    IF i > Len(keys) THEN <<>>
    ELSE <<keys[i].verification_method>> \o KeyMethods(keys, i + 1)

RECURSIVE RetainIds(_, _, _)
\* for id in ids { list.retain(|v| v.id != *id) }, from index i on
RetainIds(list, ids, i) ==
    IF i > Len(ids) THEN list
    ELSE RetainIds(SelectSeq(list, LAMBDA v : v.id # ids[i]), ids, i + 1)

RECURSIVE RemoveIds(_, _, _)
\* for id in ids { my_purp.remove(&VmRelationship { key_id: Some(id), .. }) }
RemoveIds(set, ids, i) ==
    IF i > Len(ids) THEN set
    ELSE RemoveIds(remove(set, [key_id |-> Some(ids[i]),
                                verification_method |-> None]), ids, i + 1)

----------------------------------------------------------------------------
(* The five patch actions *)

\* a replace that takes the payload's service list even when it is absent
apply_replace_services_cleared(d, patch) ==
    IF ~IsSome(patch.document) THEN d
    ELSE LET pdoc == Unwrap(patch.document)
             d1 == IF IsSome(pdoc.public_keys)
                   THEN LET keys == Unwrap(pdoc.public_keys)
                            vm == KeyMethods(keys, 1)
                            my_purp == PushKeys(VmRelationshipSetDefault, keys, 1)
                        IN reload_vm_relationships(
                               [d EXCEPT !.verification_method = Some(vm)], my_purp)
                   ELSE d
         IN [d1 EXCEPT !.service = pdoc.services]

\* DidDocument::apply_replace
apply_replace(d, patch) ==
    IF ~IsSome(patch.document) THEN d
    ELSE LET pdoc == Unwrap(patch.document)
             d1 == IF IsSome(pdoc.public_keys)
                   THEN LET keys == Unwrap(pdoc.public_keys)
                            vm == KeyMethods(keys, 1)
                            my_purp == PushKeys(VmRelationshipSetDefault, keys, 1)
                        IN reload_vm_relationships(
                               [d EXCEPT !.verification_method = Some(vm)], my_purp)
                   ELSE d
         IN IF IsSome(pdoc.services)
            THEN [d1 EXCEPT !.service = Some(Unwrap(pdoc.services))]
            ELSE d1

\* an add that pushes the methods and forgets their references
apply_add_keys_no_refs(d, patch) ==
    IF ~IsSome(patch.public_keys) THEN d
    ELSE LET my_vm == UnwrapOrDefault(d.verification_method)
                        \o KeyMethods(Unwrap(patch.public_keys), 1)
         IN [d EXCEPT !.verification_method =
                          IF my_vm = <<>> THEN None ELSE Some(my_vm)]

\* an add that puts the new methods before the ones of the document
apply_add_keys_prepend(d, patch) ==
    IF ~IsSome(patch.public_keys) THEN d
    ELSE LET keys == Unwrap(patch.public_keys)
             my_vm == KeyMethods(keys, 1) \o UnwrapOrDefault(d.verification_method)
             my_purp == PushKeys(VmRelationshipSetFrom(d), keys, 1)
         IN reload_vm_relationships(
                [d EXCEPT !.verification_method =
                              IF my_vm = <<>> THEN None ELSE Some(my_vm)],
                my_purp)

\* DidDocument::apply_add_keys
apply_add_keys(d, patch) ==
    IF ~IsSome(patch.public_keys) THEN d
    ELSE LET keys == Unwrap(patch.public_keys)
             my_vm == UnwrapOrDefault(d.verification_method) \o KeyMethods(keys, 1)
             my_purp == PushKeys(VmRelationshipSetFrom(d), keys, 1)
         IN reload_vm_relationships(
                [d EXCEPT !.verification_method =
                              IF my_vm = <<>> THEN None ELSE Some(my_vm)],
                my_purp)

\* a remove that reloads the relationships whether or not the patch has ids
apply_remove_keys_always(d, patch) ==
    LET ids == UnwrapOrDefault(patch.ids)
        d1 == [d EXCEPT !.verification_method =
                   Some(RetainIds(UnwrapOrDefault(d.verification_method), ids, 1))]
    IN reload_vm_relationships(d1, RemoveIds(VmRelationshipSetFrom(d), ids, 1))

\* a remove that drops the methods and leaves the relationships as they were
apply_remove_keys_no_reload(d, patch) ==
    IF ~IsSome(patch.ids) \/ ~IsSome(d.verification_method) THEN d
    ELSE [d EXCEPT !.verification_method =
              Some(RetainIds(Unwrap(d.verification_method), Unwrap(patch.ids), 1))]

\* DidDocument::apply_remove_keys
apply_remove_keys(d, patch) ==
    IF ~IsSome(patch.ids) THEN d
    ELSE LET ids == Unwrap(patch.ids)
             my_purp == VmRelationshipSetFrom(d)
             d1 == IF IsSome(d.verification_method)
                   THEN [d EXCEPT !.verification_method =
                             Some(RetainIds(Unwrap(d.verification_method), ids, 1))]
                   ELSE d
         IN reload_vm_relationships(d1, RemoveIds(my_purp, ids, 1))

\* an AddServices arm that overwrites the service list
apply_add_services_overwrite(d, p) ==
    IF ~IsSome(p.services) THEN d
    ELSE [d EXCEPT !.service = Some(Unwrap(p.services))]

\* an AddServices arm that reloads the relationships as the key arms do
apply_add_services_reloads(d, p) ==
    IF ~IsSome(p.services) THEN d
    ELSE reload_vm_relationships(
             [d EXCEPT !.service = Some(UnwrapOrDefault(d.service) \o Unwrap(p.services))],
             VmRelationshipSetDefault)

\* the Action::AddServices arm of apply_patches
apply_add_services(d, p) ==
    IF ~IsSome(p.services) THEN d
    ELSE IF IsSome(d.service)
         THEN [d EXCEPT !.service = Some(Unwrap(d.service) \o Unwrap(p.services))]
         ELSE [d EXCEPT !.service = Some(Unwrap(p.services))]

\* a RemoveServices arm that gives a document without services an empty list
apply_remove_services_creates(d, p) ==
    IF ~IsSome(p.ids) THEN d
    ELSE [d EXCEPT !.service =
              Some(RetainIds(UnwrapOrDefault(d.service), Unwrap(p.ids), 1))]

\* a RemoveServices arm that turns an emptied list into an absent one
apply_remove_services_collapses(d, p) ==
    IF ~IsSome(p.ids) \/ ~IsSome(d.service) THEN d
    ELSE [d EXCEPT !.service =
              ThenSome(RetainIds(Unwrap(d.service), Unwrap(p.ids), 1))]

\* the Action::RemoveServices arm of apply_patches
apply_remove_services(d, p) ==
    IF ~IsSome(p.ids) THEN d
    ELSE IF IsSome(d.service)
         THEN [d EXCEPT !.service = Some(RetainIds(Unwrap(d.service), Unwrap(p.ids), 1))]
         ELSE d

\* one iteration of the loop body for a patch that is not a Replace
ApplyOne(d, p) ==
    CASE p.action = "AddPublicKeys" -> apply_add_keys(d, p)
      [] p.action = "RemovePublicKeys" -> apply_remove_keys(d, p)
      [] p.action = "AddServices" -> apply_add_services(d, p)
      [] p.action = "RemoveServices" -> apply_remove_services(d, p)

RECURSIVE ApplyNoBreak(_, _, _)
\* the loop without the break after a Replace
ApplyNoBreak(d, ps, i) ==
    IF i > Len(ps) THEN d
    ELSE IF ps[i].action = "Replace"
         THEN ApplyNoBreak(apply_replace(d, ps[i]), ps, i + 1)
         ELSE ApplyNoBreak(ApplyOne(d, ps[i]), ps, i + 1)

RECURSIVE ApplyEachToOriginal(_, _, _, _)
\* the loop with every patch reading the document the call started with
ApplyEachToOriginal(d0, d, ps, i) ==
    IF i > Len(ps) THEN d
    ELSE IF ps[i].action = "Replace" THEN apply_replace(d0, ps[i])
         ELSE ApplyEachToOriginal(d0, ApplyOne(d0, ps[i]), ps, i + 1)

RECURSIVE ApplyFrom(_, _, _)
\* for p in patches { match p.action { ... } }, from index i on
ApplyFrom(d, ps, i) ==
    IF i > Len(ps) THEN d
    ELSE IF ps[i].action = "Replace"
         THEN apply_replace(d, ps[i])        \* break
         ELSE ApplyFrom(ApplyOne(d, ps[i]), ps, i + 1)

apply_patches_no_break(d, ps) == ApplyNoBreak(d, ps, 1)

apply_patches_stale(d, ps) == ApplyEachToOriginal(d, d, ps, 1)

\* DidDocument::apply_patches
apply_patches(d, ps) == ApplyFrom(d, ps, 1)

----------------------------------------------------------------------------
(* The patch Builder *)

\* The characters of each identifier the model uses (a Rust &str, read char by char).
IdChars(id) ==
    CASE id = "k1" -> <<"k", "1">>
      [] id = "k2" -> <<"k", "2">>
      [] id = "s1" -> <<"s", "1">>
      [] id = "s2" -> <<"s", "2">>
      [] id = "k 3" -> <<"k", " ", "3">>
      [] id = "" -> <<>>
      [] id = "1f9a03c7" -> <<"1", "f", "9", "a", "0", "3", "c", "7">>
      [] id = "e4b8d2a6" -> <<"e", "4", "b", "8", "d", "2", "a", "6">>

\* The character class of the regex ^[a-zA-Z0-9_\-\?#:/=&\+%]*$
PermittedChars ==
    {"a", "b", "c", "d", "e", "f", "g", "h", "i", "j", "k", "l", "m", "n", "o",
     "p", "q", "r", "s", "t", "u", "v", "w", "x", "y", "z",
     "A", "B", "C", "D", "E", "F", "G", "H", "I", "J", "K", "L", "M", "N", "O",
     "P", "Q", "R", "S", "T", "U", "V", "W", "X", "Y", "Z",
     "0", "1", "2", "3", "4", "5", "6", "7", "8", "9",
     "_", "-", "?", "#", ":", "/", "=", "&", "+", "%"}

\* a check that wants at least one character (the regex with + for *)
check_key_id_nonempty(id) ==
    IF IdChars(id) # <<>>
       /\ \A i \in 1..Len(IdChars(id)) : IdChars(id)[i] \in PermittedChars
    THEN "Ok" ELSE "InvalidPatch"

\* Builder::check_key_id: "Ok", or the kind of the error it raises
check_key_id(id) ==
    IF \A i \in 1..Len(IdChars(id)) : IdChars(id)[i] \in PermittedChars
    THEN "Ok" ELSE "InvalidPatch"

\* Builder::new
BuilderNew(action) ==
    [action |-> action, document |-> None, services |-> <<>>, ids |-> <<>>,
     public_keys |-> <<>>]

\* the result of a setter: the error kind ("Ok" when none) and the builder after it
SetterResult(err, b) == [err |-> err, builder |-> b]

\* a document setter that stores the payload before it looks at the action
BuilderDocument_stores_first(b, document) ==
    [err |-> IF b.action # "Replace" THEN "InvalidPatch" ELSE "Ok",
     builder |-> [b EXCEPT !.document = Some(document)]]

\* a document setter that refuses a payload with a repeated key id
BuilderDocument_validating(b, document) ==
    IF b.action # "Replace" THEN [err |-> "InvalidPatch", builder |-> b]
    ELSE IF \E i, j \in 1..Len(UnwrapOrDefault(document.public_keys)) :
               /\ i < j
               /\ document.public_keys[1][i].verification_method.id
                     = document.public_keys[1][j].verification_method.id
         THEN [err |-> "InvalidPatch", builder |-> b]
         ELSE [err |-> "Ok", builder |-> [b EXCEPT !.document = Some(document)]]

\* Builder::document
BuilderDocument(b, document) ==
    IF b.action # "Replace" THEN SetterResult("InvalidPatch", b)
    ELSE SetterResult("Ok", [b EXCEPT !.document = Some(document)])

\* a service setter without the action test
BuilderService_any_action(b, service) ==
    SetterResult("Ok", [b EXCEPT !.services = Append(@, service)])

\* Builder::service
BuilderService(b, service) ==
    IF b.action # "AddServices" THEN SetterResult("InvalidPatch", b)
    ELSE SetterResult("Ok", [b EXCEPT !.services = Append(@, service)])

\* a purpose check that finds nothing
HasDuplicatePurpose_never(purposes) == FALSE

\* purpose_map.contains_key(p) for some p of the loop over purposes
HasDuplicatePurpose(purposes) ==
    \E i, j \in 1..Len(purposes) : i < j /\ purposes[i] = purposes[j]

\* a public_key setter without the duplicate id test
BuilderPublicKey_no_id_test(b, key) ==
    IF b.action # "AddPublicKeys" THEN [err |-> "InvalidPatch", builder |-> b]
    ELSE IF check_key_id(key.verification_method.id) # "Ok"
    THEN [err |-> check_key_id(key.verification_method.id), builder |-> b]
    ELSE IF IsSome(key.purposes) /\ HasDuplicatePurpose(Unwrap(key.purposes))
    THEN [err |-> "InvalidInput", builder |-> b]
    ELSE [err |-> "Ok", builder |-> [b EXCEPT !.public_keys = Append(@, key)]]

\* Builder::public_key
BuilderPublicKey(b, key) ==
    IF b.action # "AddPublicKeys" THEN SetterResult("InvalidPatch", b)
    ELSE IF check_key_id(key.verification_method.id) # "Ok"
    THEN SetterResult(check_key_id(key.verification_method.id), b)
    ELSE IF IsSome(key.purposes) /\ HasDuplicatePurpose(Unwrap(key.purposes))
    THEN SetterResult("InvalidInput", b)
    ELSE IF \E i \in 1..Len(b.public_keys) :
                b.public_keys[i].verification_method.id = key.verification_method.id
    THEN SetterResult("InvalidPatch", b)
    ELSE SetterResult("Ok", [b EXCEPT !.public_keys = Append(@, key)])

\* an id setter without the duplicate test
BuilderId_no_dup_test(b, id) ==
    IF check_key_id(id) # "Ok" THEN [err |-> check_key_id(id), builder |-> b]
    ELSE IF b.action # "RemovePublicKeys" /\ b.action # "RemoveServices"
    THEN [err |-> "InvalidPatch", builder |-> b]
    ELSE [err |-> "Ok", builder |-> [b EXCEPT !.ids = Append(@, id)]]

\* Builder::id
BuilderId(b, id) ==
    IF check_key_id(id) # "Ok" THEN SetterResult(check_key_id(id), b)
    ELSE IF b.action # "RemovePublicKeys" /\ b.action # "RemoveServices"
    THEN SetterResult("InvalidPatch", b)
    ELSE IF \E i \in 1..Len(b.ids) : b.ids[i] = id
    THEN SetterResult("InvalidPatch", b)
    ELSE SetterResult("Ok", [b EXCEPT !.ids = Append(@, id)])

\* the result of build(): the error kind and, when "Ok", Some(patch)
BuildResult(err, patch) == [err |-> err, patch |-> patch]

\* a build without the emptiness tests
BuilderBuild_no_test(b) ==
    [err |-> "Ok",
     patch |-> Some(CASE b.action = "Replace" ->
                         [PatchDefault EXCEPT !.action = b.action, !.document = b.document]
                      [] b.action = "AddPublicKeys" ->
                         [PatchDefault EXCEPT !.action = b.action,
                                              !.public_keys = Some(b.public_keys)]
                      [] b.action = "AddServices" ->
                         [PatchDefault EXCEPT !.action = b.action,
                                              !.services = Some(b.services)]
                      [] OTHER ->
                         [PatchDefault EXCEPT !.action = b.action, !.ids = Some(b.ids)])]

\* a build that copies every list of the builder into the patch
BuilderBuild_all_fields(b) ==
    IF (b.action = "Replace" /\ b.document = <<>>)
       \/ (b.action = "AddPublicKeys" /\ b.public_keys = <<>>)
       \/ (b.action = "AddServices" /\ b.services = <<>>)
       \/ (b.action \in {"RemovePublicKeys", "RemoveServices"} /\ b.ids = <<>>)
    THEN [err |-> "InvalidPatch", patch |-> <<>>]
    ELSE [err |-> "Ok",
          patch |-> Some([action |-> b.action, document |-> b.document,
                          services |-> Some(b.services), ids |-> Some(b.ids),
                          public_keys |-> Some(b.public_keys)])]

\* Builder::build
BuilderBuild(b) ==
    CASE b.action = "Replace" ->
            IF ~IsSome(b.document) THEN BuildResult("InvalidPatch", None)
            ELSE BuildResult("Ok", Some([PatchDefault EXCEPT
                     !.action = b.action, !.document = b.document]))
      [] b.action = "AddPublicKeys" ->
            IF b.public_keys = <<>> THEN BuildResult("InvalidPatch", None)
            ELSE BuildResult("Ok", Some([PatchDefault EXCEPT
                     !.action = b.action, !.public_keys = Some(b.public_keys)]))
      [] b.action = "RemovePublicKeys" ->
            IF b.ids = <<>> THEN BuildResult("InvalidPatch", None)
            ELSE BuildResult("Ok", Some([PatchDefault EXCEPT
                     !.action = b.action, !.ids = Some(b.ids)]))
      [] b.action = "AddServices" ->
            IF b.services = <<>> THEN BuildResult("InvalidPatch", None)
            ELSE BuildResult("Ok", Some([PatchDefault EXCEPT
                     !.action = b.action, !.services = Some(b.services)]))
      [] b.action = "RemoveServices" ->
            IF b.ids = <<>> THEN BuildResult("InvalidPatch", None)
            ELSE BuildResult("Ok", Some([PatchDefault EXCEPT
                     !.action = b.action, !.ids = Some(b.ids)]))

RECURSIVE PublicKeyCalls(_, _, _)
\* builder.public_key(&keys[i])?.public_key(&keys[i+1])? ... : stops at the first error
PublicKeyCalls(b, keys, i) ==
    IF i > Len(keys) THEN SetterResult("Ok", b)
    ELSE LET r == BuilderPublicKey(b, keys[i])
         IN IF r.err # "Ok" THEN r ELSE PublicKeyCalls(r.builder, keys, i + 1)

\* Patch::builder(AddPublicKeys).public_key(k1)?...public_key(kn)?.build()
BuildAddPublicKeys(keys) ==
    LET r == PublicKeyCalls(BuilderNew("AddPublicKeys"), keys, 1)
    IN IF r.err # "Ok" THEN BuildResult(r.err, None) ELSE BuilderBuild(r.builder)

----------------------------------------------------------------------------
(* The documents and patches the model draws from *)

K1 == VerificationMethod("k1", "jwk1")

K2 == VerificationMethod("k2", "jwk2")

\* a second method with the id of K1 and other key material
K1b == VerificationMethod("k1", "jwk3")

S1 == Service("s1", "service1type")

S2 == Service("s2", "service2type")

\* tests::default_doc: one method referenced in authentication and
\* assertionMethod, one service
DocDefault ==
    [DidDocumentDefault EXCEPT
        !.id = "did:ion:EiAscM5K", !.context = <<"https://www.w3.org/ns/did/v1">>,
        !.controller = Some(<<"did:ion:EiAscM5K">>),
        !.verification_method = Some(<<K1>>),
        !.authentication = Some(<<VmRelationshipFrom(K1)>>),
        !.assertion_method = Some(<<VmRelationshipFrom(K1)>>),
        !.service = Some(<<S1>>)]

\* two methods, K2 the only member of authentication and also referenced elsewhere
DocTwoKeys ==
    [DidDocumentDefault EXCEPT
        !.id = "did:ion:EiAscM5K", !.context = <<"https://www.w3.org/ns/did/v1">>,
        !.verification_method = Some(<<K2, K1>>),
        !.authentication = Some(<<VmRelationshipFrom(K2)>>),
        !.key_agreement = Some(<<VmRelationshipFrom(K1)>>),
        !.capability_invocation = Some(<<VmRelationshipFrom(K1), VmRelationshipFrom(K2)>>)]

\* relationship categories holding embedded methods beside references
DocEmbedded ==
    [DidDocumentDefault EXCEPT
        !.id = "did:ion:EiAscM5K", !.context = <<"https://www.w3.org/ns/did/v1">>,
        !.also_known_as = Some(<<"https://example.com">>),
        !.verification_method = Some(<<K1>>),
        !.authentication = Some(<<VmRelationshipEmbedded(K2), VmRelationshipFrom(K1)>>),
        !.key_agreement = Some(<<VmRelationshipEmbedded(K1)>>),
        !.service = Some(<<S1, S2>>)]

\* a document whose keys and services were all removed: present, empty lists
DocEmptied ==
    [DidDocumentDefault EXCEPT
        !.id = "did:ion:EiAscM5K", !.context = <<"https://www.w3.org/ns/did/v1">>,
        !.verification_method = Some(<<>>), !.service = Some(<<>>)]

\* repeated method ids, repeated references, repeated services
DocRepeats ==
    [DidDocumentDefault EXCEPT
        !.id = "did:ion:EiAscM5K", !.context = <<"https://www.w3.org/ns/did/v1">>,
        !.verification_method = Some(<<K1, K2, K1b>>),
        !.assertion_method = Some(<<VmRelationshipFrom(K1), VmRelationshipFrom(K2),
                                    VmRelationshipFrom(K1)>>),
        !.capability_delegation = Some(<<VmRelationshipFrom(K2)>>),
        !.service = Some(<<S2, S1, S2>>)]

\* a conversion that gives a document without methods an empty key list
DocumentFrom_empty_key_list(d) ==
    LET methods == UnwrapOrDefault(d.verification_method)
    IN PatchDocument(Some([i \in 1..Len(methods) |-> VmWithPurpose(methods[i], None)]),
                     d.service)

\* impl From<&DidDocument> for Document: the services cloned, every method
\* as a key with VmWithPurpose's default purposes
DocumentFrom(d) ==
    LET methods == UnwrapOrDefault(d.verification_method)
        public_keys == [i \in 1..Len(methods) |-> VmWithPurpose(methods[i], None)]
    IN PatchDocument(IF public_keys = <<>> THEN None ELSE Some(public_keys),
                     d.service)

\* The documents a run starts from: DidDocument::default() and documents read
\* back from storage.
InitDocs == {DidDocumentDefault, DocDefault, DocTwoKeys, DocEmbedded, DocEmptied,
             DocRepeats}

\* tests::patch_replace: the replacement payload
ReplacementDocument ==
    PatchDocument(Some(<<VmWithPurpose(K2, Some(<<"Authentication", "KeyAgreement">>))>>),
                  Some(<<S2>>))

\* a payload with repeated ids and purposes, a key without purposes, no services
ReplacementRepeats ==
    PatchDocument(Some(<<VmWithPurpose(K1b, Some(<<"CapabilityInvocation",
                                                   "CapabilityInvocation">>)),
                         VmWithPurpose(K1b, None)>>),
                  None)

\* a payload with services and no key list
ReplacementNoKeys == PatchDocument(None, Some(<<S2>>))

\* the key of the concrete scenario: k2 for authentication
KeyK2 == VmWithPurpose(K2, Some(<<"Authentication">>))

\* Patches whose action-appropriate payload is present.
WellFormedPatches ==
    {Patch("Replace", Some(ReplacementDocument), None, None, None),
     Patch("Replace", Some(ReplacementRepeats), None, None, None),
     Patch("Replace", Some(ReplacementNoKeys), None, None, None),
     Patch("AddPublicKeys", None, None, None, Some(<<KeyK2>>)),
     Patch("AddPublicKeys", None, None, None,
           Some(<<VmWithPurpose(K1b, Some(<<"AssertionMethod", "KeyAgreement">>)),
                  VmWithPurpose(K2, Some(<<"CapabilityDelegation",
                                           "CapabilityInvocation">>))>>)),
     Patch("AddPublicKeys", None, None, None,
           Some(<<VmWithPurpose(K2, Some(<<"Authentication", "Authentication">>)),
                  VmWithPurpose(K1, None)>>)),
     Patch("RemovePublicKeys", None, None, Some(<<"k2">>), None),
     Patch("RemovePublicKeys", None, None, Some(<<"k1", "k2">>), None),
     Patch("AddServices", None, Some(<<S2>>), None, None),
     Patch("RemoveServices", None, None, Some(<<"s1">>), None),
     Patch("RemoveServices", None, None, Some(<<"s2", "s1">>), None)}

\* Patches whose action-appropriate payload is absent, each carrying the fields
\* that belong to other actions.
MalformedPatches ==
    {Patch("Replace", None, Some(<<S2>>), Some(<<"k1">>), Some(<<KeyK2>>)),
     Patch("AddPublicKeys", Some(ReplacementDocument), Some(<<S2>>), Some(<<"k1">>), None),
     Patch("RemovePublicKeys", Some(ReplacementDocument), None, None, Some(<<KeyK2>>)),
     Patch("AddServices", Some(ReplacementDocument), None, Some(<<"s1">>), None),
     Patch("RemoveServices", None, Some(<<S2>>), None, Some(<<KeyK2>>))}

Patches == WellFormedPatches \cup MalformedPatches

----------------------------------------------------------------------------
(* The did:web registrar *)

\* DID_CONTEXT
DID_CONTEXT == "https://www.w3.org/ns/did/v1"

\* the outcome of a registrar call: the error kind or "Ok", the value returned
\* and the document the caller passed by reference, as it is after the call
RegResult(err, value, passed) == [err |-> err, value |-> value, passed |-> passed]

RECURSIVE ServiceCalls(_, _, _)
\* for s in svcs { patch_service_builder.service(s)?; }, from index i on
ServiceCalls(b, svcs, i) ==
    IF i > Len(svcs) THEN SetterResult("Ok", b)
    ELSE LET r == BuilderService(b, svcs[i])
         IN IF r.err # "Ok" THEN r ELSE ServiceCalls(r.builder, svcs, i + 1)

\* the purposes WebRegistrar::create gives its verification method
CreatePurposes == <<"Authentication", "AssertionMethod">>

\* the purposes of a create that makes a key for every use
CreatePurposesAll ==
    <<"Authentication", "AssertionMethod", "KeyAgreement", "CapabilityDelegation",
      "CapabilityInvocation">>

\* the body of create for a given list of purposes: services is the
\* Option<&[Service]> argument, ring the outcome of the keyring (next_key and
\* check), hex the value of rand_hex(8)
CreateWith(purposes, services, ring, hex) ==
    IF ring # "Ok" THEN RegResult("KeyRing", None, None)
    ELSE LET doc0 == [DidDocumentDefault EXCEPT !.context = <<DID_CONTEXT>>]
             vm == VmWithPurpose(VerificationMethod(hex, "jwk1"), Some(purposes))
             patch_key == BuildAddPublicKeys(<<vm>>)
         IN IF patch_key.err # "Ok" THEN RegResult(patch_key.err, None, None)
            ELSE LET doc1 == apply_patches(doc0, <<Unwrap(patch_key.patch)>>)
                 IN IF ~IsSome(services) THEN RegResult("Ok", Some(doc1), None)
                    ELSE LET sb == ServiceCalls(BuilderNew("AddServices"),
                                                Unwrap(services), 1)
                             patch_service == IF sb.err # "Ok"
                                              THEN BuildResult(sb.err, None)
                                              ELSE BuilderBuild(sb.builder)
                         IN IF patch_service.err # "Ok"
                            THEN RegResult(patch_service.err, None, None)
                            ELSE RegResult("Ok",
                                     Some(apply_patches(doc1,
                                              <<Unwrap(patch_service.patch)>>)),
                                     None)

\* a create whose key serves every purpose
create_every_purpose(services, ring, hex) ==
    CreateWith(CreatePurposesAll, services, ring, hex)

\* a create that builds the service patch only for a list that has services
create_skips_empty(services, ring, hex) ==
    CreateWith(CreatePurposes, IF services = Some(<<>>) THEN None ELSE services,
               ring, hex)

\* WebRegistrar::create
create(services, ring, hex) == CreateWith(CreatePurposes, services, ring, hex)

\* an update that patches the document it was given
update_in_place(d, ps) ==
    RegResult("Ok", Some(apply_patches(d, ps)), Some(apply_patches(d, ps)))

\* WebRegistrar::update: doc is borrowed, patched is its clone
update(d, ps) == RegResult("Ok", Some(apply_patches(d, ps)), Some(d))

\* WebRegistrar::deactivate
deactivate(did) == RegResult("NotSupported", None, None)

\* WebRegistrar::recover: the document is borrowed and not read
recover(d) == RegResult("NotSupported", None, Some(d))

\* no registrar call yet
RegNone ==
    [op |-> "none", services |-> None, ring |-> "none", err |-> "Ok", value |-> None]

----------------------------------------------------------------------------
(* The single-or-list codec: flexvec_or_single and option_flexvec_or_single *)

\* A JSON value (serde_json::Value): its kind, the text of a string or number
\* or the content of an object, and the items of an array.
Json(kind, text, items) == [kind |-> kind, text |-> text, items |-> items]

JNull == Json("null", "", <<>>)

JNumber(text) == Json("number", text, <<>>)

JString(text) == Json("string", text, <<>>)

\* the object {"n": text}
JObject(text) == Json("object", text, <<>>)

JArray(items) == Json("array", "", items)

\* a field that is not on the wire
JAbsent == Json("absent", "", <<>>)

\* An element in memory: a T made from a string or from an object.
Elem(form, text) == [form |-> form, text |-> text]

\* The element types T: DeserializeOwned + FromStr. String is read from a
\* string alone, tests::Nested from an object alone (its from_str fails), and
\* Either from both.
ElementTypes == {"String", "Nested", "Either"}

\* the strings the model uses that begin with '['
BracketTexts == {"[", "[]", "[\"item1\",\"item2\"]", "[{\"n\":\"object1\"}]", "[1]"}

\* value.starts_with('[')
StartsWithBracket(text) == text \in BracketTexts

\* serde_json's reading of a text as JSON; kind "invalid" when it is none
ParseJson(text) ==
    CASE text = "[]" -> JArray(<<>>)
      [] text = "[\"item1\",\"item2\"]" -> JArray(<<JString("item1"), JString("item2")>>)
      [] text = "[{\"n\":\"object1\"}]" -> JArray(<<JObject("object1")>>)
      [] text = "[1]" -> JArray(<<JNumber("1")>>)
      [] OTHER -> Json("invalid", "", <<>>)

\* T's Serialize
ElemToJson(e) == IF e.form = "Str" THEN JString(e.text) ELSE JObject(e.text)

\* T::from_str(s): Some(element) or None for Err
FromStr(T, s) == IF T \in {"String", "Either"} THEN Some(Elem("Str", s)) ELSE None

\* T's Deserialize given an object (visit_map, serde_json::from_value)
FromObject(T, o) == IF T \in {"Nested", "Either"} THEN Some(Elem("Obj", o)) ELSE None

\* T's Deserialize given any JSON value (the elements of from_str::<Vec<T>>)
DeserializeElem(T, j) ==
    CASE j.kind = "string" -> FromStr(T, j.text)
      [] j.kind = "object" -> FromObject(T, j.text)
      [] OTHER -> None

\* seq.serialize_element(e) for every e of value
SerializeSeq(value) == JArray([i \in 1..Len(value) |-> ElemToJson(value[i])])

\* flexvec_or_single::serialize
serialize(value) ==
    IF Len(value) = 1 THEN ElemToJson(value[1]) ELSE SerializeSeq(value)

\* option_flexvec_or_single::serialize
serialize_option(value) ==
    IF ~IsSome(value) THEN JNull ELSE serialize(Unwrap(value))

\* What a struct writes for its field: a field declared with
\* skip_serializing_if = "Option::is_none" is left out when it is None.
EmitField(optional, skip, value) ==
    IF ~optional THEN serialize(value)
    ELSE IF skip /\ ~IsSome(value) THEN JAbsent
    ELSE serialize_option(value)

\* the outcome of a deserialize: "Ok" and the sequence, or "Error"
DeResult(err, value) == [err |-> err, value |-> value]

RECURSIVE VisitSeqLenient(_, _, _, _)
\* a visit_seq that passes over the elements it cannot read
VisitSeqLenient(T, items, i, deser) ==
    IF i > Len(items) THEN DeResult("Ok", deser)
    ELSE LET r == DeserializeElem(T, items[i])
         IN VisitSeqLenient(T, items, i + 1,
                            IF IsSome(r) THEN Append(deser, Unwrap(r)) ELSE deser)

RECURSIVE VisitSeq(_, _, _, _)
\* VisitorImpl::visit_seq: while let Some(curr) = seq.next_element()? { .. }
VisitSeq(T, items, i, deser) ==
    IF i > Len(items) THEN DeResult("Ok", deser)
    ELSE LET curr == items[i]
         IN CASE curr.kind = "string" ->
                    IF IsSome(FromStr(T, curr.text))
                    THEN VisitSeq(T, items, i + 1,
                                  Append(deser, Unwrap(FromStr(T, curr.text))))
                    ELSE DeResult("Error", <<>>)
              [] curr.kind = "object" ->
                    IF IsSome(FromObject(T, curr.text))
                    THEN VisitSeq(T, items, i + 1,
                                  Append(deser, Unwrap(FromObject(T, curr.text))))
                    ELSE DeResult("Error", <<>>)
              [] OTHER -> DeResult("Error", <<>>)

RECURSIVE ParseItems(_, _, _, _)
\* Vec<T>'s Deserialize over the items of a parsed array
ParseItems(T, items, i, acc) ==
    IF i > Len(items) THEN Some(acc)
    ELSE LET r == DeserializeElem(T, items[i])
         IN IF IsSome(r) THEN ParseItems(T, items, i + 1, Append(acc, Unwrap(r)))
            ELSE None

\* serde_json::from_str::<Vec<T>>(value): Some(vector) or None for Err
FromStrVec(T, text) ==
    IF ParseJson(text).kind = "array" THEN ParseItems(T, ParseJson(text).items, 1, <<>>)
    ELSE None

\* a visit_str that hands on the error of the embedded array (? for
\* unwrap_or_default)
VisitStrStrict(T, text) ==
    IF StartsWithBracket(text)
    THEN IF IsSome(FromStrVec(T, text))
         THEN DeResult("Ok", Unwrap(FromStrVec(T, text)))
         ELSE DeResult("Error", <<>>)
    ELSE IF IsSome(FromStr(T, text))
         THEN DeResult("Ok", <<Unwrap(FromStr(T, text))>>)
         ELSE DeResult("Error", <<>>)

\* VisitorImpl::visit_str
VisitStr(T, text) ==
    IF StartsWithBracket(text)
    THEN DeResult("Ok", UnwrapOrDefault(FromStrVec(T, text)))
    ELSE IF IsSome(FromStr(T, text))
         THEN DeResult("Ok", <<Unwrap(FromStr(T, text))>>)
         ELSE DeResult("Error", <<>>)

\* VisitorImpl::visit_map
VisitMap(T, o) ==
    IF IsSome(FromObject(T, o)) THEN DeResult("Ok", <<Unwrap(FromObject(T, o))>>)
    ELSE DeResult("Error", <<>>)

\* flexvec_or_single::deserialize: deserialize_any hands the value to the
\* visitor, which has no method for null, booleans and numbers
deserialize(T, j) ==
    CASE j.kind = "object" -> VisitMap(T, j.text)
      [] j.kind = "array" -> VisitSeq(T, j.items, 1, <<>>)
      [] j.kind = "string" -> VisitStr(T, j.text)
      [] OTHER -> DeResult("Error", <<>>)

\* option_flexvec_or_single::deserialize: the same visitor, Some around Ok
deserialize_option(T, j) ==
    LET r == deserialize(T, j)
    IN IF r.err = "Ok" THEN DeResult("Ok", Some(r.value)) ELSE DeResult("Error", None)

\* What a #[serde(default)] struct reads for its field: the default when the
\* field is not on the wire.
ReadField(T, optional, j) ==
    IF j = JAbsent THEN DeResult("Ok", IF optional THEN None ELSE <<>>)
    ELSE IF optional THEN deserialize_option(T, j) ELSE deserialize(T, j)

\* no field written or read yet
SerNone ==
    [op |-> "none", T |-> "String", optional |-> FALSE, skip |-> FALSE, value |-> <<>>,
     wire |-> JAbsent, err |-> "Ok", back |-> <<>>]

----------------------------------------------------------------------------
(* did:key and did:jwk: DidKey::create and DidJwk::create *)

\* Kind::String(s) and Kind::Object(o)
KindString(s) == [kind |-> "String", value |-> s]

KindObject(o) == [kind |-> "Object", value |-> o]

\* PublicKeyJwk { kty: KeyType::Okp, crv: Curve::Ed25519, x }
PublicKeyJwk(x) == [kty |-> "OKP", crv |-> "Ed25519", x |-> x]

\* MethodType::Multikey { public_key_multibase }
MethodTypeMultikey(multibase) == [type |-> "Multikey", public_key |-> multibase]

\* MethodType::JsonWebKey { public_key_jwk }
MethodTypeJsonWebKey(jwk) == [type |-> "JsonWebKey", public_key |-> jwk]

\* VerificationMethod { id, controller, method_type, ..default() } of the
\* did:key and did:jwk documents
VerificationMethodOf(id, controller, method_type) ==
    [id |-> id, controller |-> controller, method_type |-> method_type]

\* CreateOptions
CreateOptions(public_key_format, default_context, enable_encryption_key_derivation) ==
    [public_key_format |-> public_key_format,
     default_context |-> default_context,
     enable_encryption_key_derivation |-> enable_encryption_key_derivation]

\* the result of a create: the kind of the error ("Ok" for none, "Panic" for
\* an unwrap of Err) and the document returned
OperResult(err, value) == [err |-> err, value |-> value]

ED25519_CODEC == "ed25519-pub"

X25519_CODEC == "x25519-pub"

\* Base64UrlUnpadded::decode_vec(x): Some(bytes), None for Err. The x values
\* of the model: two Ed25519 points, 32 bytes that are no point, 16 bytes,
\* and a text that is not base64url.
Base64Decode(x) ==
    CASE x = "x-point-a" -> Some("point-a")
      [] x = "x-point-b" -> Some("point-b")
      [] x = "x-no-point" -> Some("no-point")
      [] x = "x-16-bytes" -> Some("16-bytes")
      [] OTHER -> None

\* CompressedEdwardsY::from_slice(bytes): Err unless there are 32 bytes
EdwardsFromSlice(bytes) == IF bytes = "16-bytes" THEN None ELSE Some(bytes)

\* edwards_y.decompress(): None when the bytes are no point of the curve
Decompress(edwards_y) == IF edwards_y = "no-point" THEN None ELSE Some(edwards_y)

\* edwards_pt.to_montgomery().to_bytes()
ToMontgomery(edwards_pt) == <<"montgomery", edwards_pt>>

\* multibase::encode(Base::Base58Btc, codec ++ bytes)
MultibaseEncode(codec, bytes) == <<"z", codec, bytes>>

\* Base64UrlUnpadded::encode_string
Base64Encode(bytes) == <<"base64url", bytes>>

\* the context entry create derives from the public key format
\* (did:key: a string for Multikey and Ed25519VerificationKey2020)
FormatContext(format) ==
    KindObject([publicKeyJwk |-> "https://w3id.org/security#publicKeyJwk",
                format |-> format])

\* the document create returns: one method, referenced by id in four
\* categories, and the key agreement entry
CreatedDocument(context, did, kid, method_type, key_agreement) ==
    [context |-> context,
     id |-> did,
     verification_method |-> Some(<<VerificationMethodOf(kid, did, method_type)>>),
     authentication |-> Some(<<KindString(kid)>>),
     assertion_method |-> Some(<<KindString(kid)>>),
     capability_invocation |-> Some(<<KindString(kid)>>),
     capability_delegation |-> Some(<<KindString(kid)>>),
     key_agreement |-> key_agreement]

\* a key agreement block that derives a JsonWebKey method for the formats
\* other than Multikey
DidKeyAgreement_any_format(key_bytes, did, options) ==
    IF ~options.enable_encryption_key_derivation THEN OperResult("Ok", None)
    ELSE IF ~IsSome(EdwardsFromSlice(key_bytes))
         THEN OperResult("InvalidPublicKey", None)
    ELSE IF ~IsSome(Decompress(Unwrap(EdwardsFromSlice(key_bytes))))
         THEN OperResult("InvalidPublicKey", None)
    ELSE LET x25519_bytes == ToMontgomery(Unwrap(Decompress(Unwrap(
                                 EdwardsFromSlice(key_bytes)))))
             multikey == MultibaseEncode(X25519_CODEC, x25519_bytes)
         IN OperResult("Ok",
                Some(<<KindObject(VerificationMethodOf(
                         <<did, "#", multikey>>, did,
                         IF options.public_key_format = "Multikey"
                         THEN MethodTypeMultikey(multikey)
                         ELSE MethodTypeJsonWebKey(
                                  PublicKeyJwk(Base64Encode(x25519_bytes)))))>>))

\* the key agreement block of DidKey::create: an OperResult whose value is
\* the Option<Vec<Kind<VerificationMethod>>> of the document
DidKeyAgreement(key_bytes, did, options) ==
    IF ~options.enable_encryption_key_derivation THEN OperResult("Ok", None)
    ELSE IF ~IsSome(EdwardsFromSlice(key_bytes))
         THEN OperResult("InvalidPublicKey", None)
    ELSE IF ~IsSome(Decompress(Unwrap(EdwardsFromSlice(key_bytes))))
         THEN OperResult("InvalidPublicKey", None)
    ELSE LET x25519_bytes == ToMontgomery(Unwrap(Decompress(Unwrap(
                                 EdwardsFromSlice(key_bytes)))))
             multikey == MultibaseEncode(X25519_CODEC, x25519_bytes)
         IN IF options.public_key_format # "Multikey"
            THEN OperResult("InvalidPublicKey", None)
            ELSE OperResult("Ok",
                     Some(<<KindObject(VerificationMethodOf(
                              <<did, "#", multikey>>, did,
                              MethodTypeMultikey(multikey)))>>))

\* DidKey::create; verification is what op.verification(VerificationMethod)
\* returns
DidKeyCreate(verification, options) ==
    IF ~IsSome(verification) THEN OperResult("Other", None)
    ELSE LET verifying_key == Unwrap(verification)
         IN IF ~IsSome(Base64Decode(verifying_key.x))
            THEN OperResult("InvalidPublicKey", None)
            ELSE LET key_bytes == Unwrap(Base64Decode(verifying_key.x))
                     multikey == MultibaseEncode(ED25519_CODEC, key_bytes)
                     did == <<"did:key:", multikey>>
                     context ==
                         IF options.public_key_format
                              \in {"Multikey", "Ed25519VerificationKey2020"}
                         THEN KindString("https://w3id.org/security/data-integrity/v1")
                         ELSE FormatContext(options.public_key_format)
                     key_agreement == DidKeyAgreement(key_bytes, did, options)
                     kid == <<did, "#", multikey>>
                     method_type ==
                         IF options.public_key_format = "Multikey"
                         THEN MethodTypeMultikey(multikey)
                         ELSE MethodTypeJsonWebKey(verifying_key)
                 IN IF key_agreement.err # "Ok"
                    THEN OperResult(key_agreement.err, None)
                    ELSE OperResult("Ok",
                             Some(CreatedDocument(
                                 <<KindString(options.default_context), context>>,
                                 did, kid, method_type, key_agreement.value)))

\* the key agreement block of DidJwk::create
DidJwkAgreement(verifying_key, did, options) ==
    IF ~options.enable_encryption_key_derivation THEN OperResult("Ok", None)
    ELSE IF ~IsSome(Base64Decode(verifying_key.x))
         THEN OperResult("InvalidPublicKey", None)
    ELSE IF ~IsSome(EdwardsFromSlice(Unwrap(Base64Decode(verifying_key.x))))
         THEN OperResult("InvalidPublicKey", None)
    ELSE IF ~IsSome(Decompress(Unwrap(EdwardsFromSlice(
                        Unwrap(Base64Decode(verifying_key.x))))))
         THEN OperResult("InvalidPublicKey", None)
    ELSE LET x25519_bytes == ToMontgomery(Unwrap(Decompress(Unwrap(EdwardsFromSlice(
                                 Unwrap(Base64Decode(verifying_key.x)))))))
             jwk == [verifying_key EXCEPT !.x = Base64Encode(x25519_bytes)]
         IN OperResult("Ok",
                Some(<<KindObject(VerificationMethodOf(
                         <<did, "#key-1">>, did, MethodTypeJsonWebKey(jwk)))>>))

\* DidJwk::create; multibase is what PublicKey::Jwk(key).multibase() returns
\* for the key, Some(text) or None for Err
DidJwkCreate(verification, options, multibase) ==
    IF ~IsSome(verification) THEN OperResult("Other", None)
    ELSE LET verifying_key == Unwrap(verification)
             serialized == <<"json", verifying_key>>
             encoded == Base64Encode(serialized)
             did == <<"did:jwk:", encoded>>
             key_agreement == DidJwkAgreement(verifying_key, did, options)
             context == FormatContext(options.public_key_format)
             kid == <<did, "#key-0">>
         IN IF key_agreement.err # "Ok" THEN OperResult(key_agreement.err, None)
            ELSE IF options.public_key_format = "Multikey" /\ ~IsSome(multibase)
                 THEN OperResult("Panic", None)
            ELSE LET method_type ==
                         IF options.public_key_format = "Multikey"
                         THEN MethodTypeMultikey(Unwrap(multibase))
                         ELSE MethodTypeJsonWebKey(verifying_key)
                 IN OperResult("Ok",
                        Some(CreatedDocument(
                            <<KindString(options.default_context), context>>,
                            did, kid, method_type, key_agreement.value)))

\* no create call yet
OperNone ==
    [op |-> "none", verification |-> None,
     options |-> CreateOptions("Multikey", "", FALSE), err |-> "Ok", value |-> None]

----------------------------------------------------------------------------
(* The state machine: a caller applying patch lists to one document *)

\* a Builder nobody has called yet, and the record of that
BuilderIdle == BuilderNew("Replace")

CallNone ==
    [op |-> "new", arg |-> "Replace", err |-> "Ok", before |-> BuilderIdle,
     built |-> None]

Init ==
    /\ doc \in InitDocs
    /\ prev = doc
    /\ patches = <<>>
    /\ applied = 0
    /\ idx = 1
    /\ pc = "idle"
    /\ constructed = "Replace"
    /\ builder = BuilderIdle
    /\ call = CallNone
    /\ accepted = <<>>
    /\ reg = RegNone
    /\ oper = OperNone
    /\ ser = SerNone

\* doc.apply_patches(&ps)
ApplyPatchesCall ==
    /\ \E n \in 0..(MaxPatches - applied) :
          \E ps \in [1..n -> Patches] :
              /\ prev' = doc
              /\ patches' = ps
              /\ doc' = apply_patches(doc, ps)
              /\ applied' = applied + n
    /\ UNCHANGED <<idx, pc>>
    /\ UNCHANGED builderVars
    /\ UNCHANGED <<registrarVars, codecVars, operatorVars>>

Next == ApplyPatchesCall

Spec == Init /\ [][Next]_vars

----------------------------------------------------------------------------
(* Vocabulary of the properties *)

Categories == {"authentication", "assertion_method", "key_agreement",
               "capability_delegation", "capability_invocation"}

\* the document field a purpose names
CategoryOf(purpose) ==
    CASE purpose = "Authentication" -> "authentication"
      [] purpose = "AssertionMethod" -> "assertion_method"
      [] purpose = "KeyAgreement" -> "key_agreement"
      [] purpose = "CapabilityDelegation" -> "capability_delegation"
      [] purpose = "CapabilityInvocation" -> "capability_invocation"

\* the entries of a relationship category of document d, empty when absent
Entries(d, c) == UnwrapOrDefault(d[c])

\* the methods of document d, empty when the list is absent
Methods(d) == UnwrapOrDefault(d.verification_method)

\* how many entries of list refer to the key id
RefCount(list, id) == Cardinality({i \in 1..Len(list) : list[i].key_id = Some(id)})

\* the set of elements of a sequence
Range(seq) == {seq[i] : i \in 1..Len(seq)}

\* the action-appropriate payload of p is absent
Malformed(p) ==
    CASE p.action = "Replace" -> p.document = None
      [] p.action = "AddPublicKeys" -> p.public_keys = None
      [] p.action = "RemovePublicKeys" -> p.ids = None
      [] p.action = "AddServices" -> p.services = None
      [] p.action = "RemoveServices" -> p.ids = None

\* the last call was made with the single patch list <<p>>
SinglePatch == Len(patches) = 1

\* does a patch of the list change the document it is applied to?
Changes(d, p) == apply_patches(d, <<p>>) # d

----------------------------------------------------------------------------
(* C1 *)

\* C1: replace-and-stop. When the first Replace patch of the list is at
\* position i, the call yields the document that the prefix ps[1..i] yields:
\* nothing after the first Replace is applied.
C1_ReplaceAndStop ==
    \A i \in 1..Len(patches) :
        (/\ patches[i].action = "Replace"
         /\ \A j \in 1..(i - 1) : patches[j].action # "Replace")
        => doc = apply_patches(prev, SubSeq(patches, 1, i))

\* a Replace with a payload was followed by a patch that would have changed
\* the replaced document, and was not applied
C1_Witness ==
    /\ Len(patches) = 2
    /\ patches[1].action = "Replace"
    /\ IsSome(patches[1].document)
    /\ doc # prev
    /\ ~Malformed(patches[2])
    /\ Changes(doc, patches[2])

----------------------------------------------------------------------------
(* C2 *)

RECURSIVE OneCallPerPatch(_, _, _)
\* the document after one apply_patches call per patch of ps, from index i on
OneCallPerPatch(d, ps, i) ==
    IF i > Len(ps) THEN d
    ELSE OneCallPerPatch(apply_patches(d, <<ps[i]>>), ps, i + 1)

\* C2: ordering. For a list without a Replace patch, one call yields what one
\* call per patch yields in the same order: each patch sees the document left
\* by the patches before it.
C2_Ordering ==
    (\A i \in 1..Len(patches) : patches[i].action # "Replace")
    => doc = OneCallPerPatch(prev, patches, 1)

\* two patches without a Replace whose order matters were applied in one call
C2_Witness ==
    /\ Len(patches) = 2
    /\ \A i \in 1..2 : patches[i].action # "Replace" /\ ~Malformed(patches[i])
    /\ doc # apply_patches(prev, <<patches[2], patches[1]>>)
    /\ doc # apply_patches(prev, <<patches[2]>>)

----------------------------------------------------------------------------
(* C3 *)

\* p is an AddPublicKeys patch the Builder returns when given p's keys in order
BuilderMadeAddKeys(p) ==
    /\ p.action = "AddPublicKeys"
    /\ IsSome(p.public_keys)
    /\ BuildAddPublicKeys(Unwrap(p.public_keys)) = BuildResult("Ok", Some(p))

\* the last call applied one Builder-made AddPublicKeys patch
AddKeysCase == SinglePatch /\ BuilderMadeAddKeys(patches[1])

\* every key of the patch is in the method list by id
C3_KeysPresent ==
    \A i \in 1..Len(Unwrap(patches[1].public_keys)) :
        \E m \in Range(Methods(doc)) :
            m.id = Unwrap(patches[1].public_keys)[i].verification_method.id

\* C3 as stated: after a Builder-made AddPublicKeys patch every key is in the
\* method list and, for every declared purpose, the reference to the key
\* appears exactly once in that category.
C3_Original ==
    AddKeysCase =>
        /\ C3_KeysPresent
        /\ \A i \in 1..Len(Unwrap(patches[1].public_keys)) :
              LET k == Unwrap(patches[1].public_keys)[i]
              IN \A j \in 1..Len(UnwrapOrDefault(k.purposes)) :
                    RefCount(Entries(doc, CategoryOf(Unwrap(k.purposes)[j])),
                             k.verification_method.id) = 1

\* C3 (amended): after a Builder-made AddPublicKeys patch every key is in the
\* method list and, for every declared purpose, that category holds exactly
\* one more reference to the key than before.
C3_AddKeysAppends ==
    AddKeysCase =>
        /\ C3_KeysPresent
        /\ \A i \in 1..Len(Unwrap(patches[1].public_keys)) :
              LET k == Unwrap(patches[1].public_keys)[i]
              IN \A j \in 1..Len(UnwrapOrDefault(k.purposes)) :
                    LET c == CategoryOf(Unwrap(k.purposes)[j])
                    IN RefCount(Entries(doc, c), k.verification_method.id)
                       = RefCount(Entries(prev, c), k.verification_method.id) + 1

\* a Builder-made patch of two keys with purposes was applied to a document
\* that already referenced one of them in a declared category
C3_Witness ==
    /\ AddKeysCase
    /\ Len(Unwrap(patches[1].public_keys)) = 2
    /\ \E i \in 1..2 :
          LET k == Unwrap(patches[1].public_keys)[i]
          IN /\ IsSome(k.purposes)
             /\ \E j \in 1..Len(Unwrap(k.purposes)) :
                   RefCount(Entries(doc, CategoryOf(Unwrap(k.purposes)[j])),
                            k.verification_method.id) = 2

----------------------------------------------------------------------------
(* C4 *)

\* the last call applied one RemovePublicKeys patch that carries an id list
RemoveKeysCase ==
    /\ SinglePatch
    /\ patches[1].action = "RemovePublicKeys"
    /\ IsSome(patches[1].ids)

\* the ids of the patch of the last call
RemovedIds == Range(Unwrap(patches[1].ids))

\* the entry carries a key identifier that is one of ids
KeyIdIn(entry, ids) == \E id \in ids : entry.key_id = Some(id)

\* C4: after a RemovePublicKeys patch with an id list no method has an id of
\* the list and no entry of any of the five categories has a key identifier of
\* the list, and every other method and entry is kept in its original order.
C4_RemoveKeys ==
    RemoveKeysCase =>
        /\ \A m \in Range(Methods(doc)) : m.id \notin RemovedIds
        /\ Methods(doc) = SelectSeq(Methods(prev), LAMBDA m : m.id \notin RemovedIds)
        /\ \A c \in Categories :
              /\ \A e \in Range(Entries(doc, c)) : ~KeyIdIn(e, RemovedIds)
              /\ Entries(doc, c) =
                    SelectSeq(Entries(prev, c), LAMBDA e : ~KeyIdIn(e, RemovedIds))

\* a removal took a method away and, in a capability category, removed one
\* reference and kept another
C4_Witness ==
    /\ RemoveKeysCase
    /\ Len(Methods(doc)) > 0
    /\ Len(Methods(doc)) < Len(Methods(prev))
    /\ \E c \in {"capability_delegation", "capability_invocation"} :
          /\ Len(Entries(doc, c)) > 0
          /\ Len(Entries(doc, c)) < Len(Entries(prev, c))

----------------------------------------------------------------------------
(* C5 *)

\* the document had the two methods a (at index ia) and b, with different ids,
\* a was referenced in authentication, and the call removed the id of a
RemoveOneOfTwoCase(ia) ==
    /\ RemoveKeysCase
    /\ Len(Methods(prev)) = 2
    /\ Methods(prev)[ia].id # Methods(prev)[3 - ia].id
    /\ Unwrap(patches[1].ids) = <<Methods(prev)[ia].id>>
    /\ RefCount(Entries(prev, "authentication"), Methods(prev)[ia].id) > 0

\* C5: from methods {A, B} with A referenced in authentication,
\* RemovePublicKeys([A.id]) leaves exactly B in the method list, and leaves
\* authentication absent when A was its only member.
C5_RemoveOneOfTwo ==
    \A ia \in 1..2 :
        RemoveOneOfTwoCase(ia) =>
            /\ doc.verification_method = Some(<<Methods(prev)[3 - ia]>>)
            /\ (\A e \in Range(Entries(prev, "authentication")) :
                    e.key_id = Some(Methods(prev)[ia].id))
               => doc.authentication = None

\* A was the only member of authentication and was removed
C5_Witness ==
    \E ia \in 1..2 :
        /\ RemoveOneOfTwoCase(ia)
        /\ \A e \in Range(Entries(prev, "authentication")) :
              e.key_id = Some(Methods(prev)[ia].id)
        /\ doc.authentication = None
        /\ Len(Methods(doc)) = 1

----------------------------------------------------------------------------
(* C6 *)

\* the last call was [AddPublicKeys(K), RemovePublicKeys([K.id])]
AddRemoveCase ==
    /\ Len(patches) = 2
    /\ patches[1].action = "AddPublicKeys"
    /\ IsSome(patches[1].public_keys)
    /\ Len(Unwrap(patches[1].public_keys)) = 1
    /\ patches[2].action = "RemovePublicKeys"
    /\ patches[2].ids = Some(<<Unwrap(patches[1].public_keys)[1].verification_method.id>>)

\* the id of the key K of the last call
AddedId == Unwrap(patches[1].public_keys)[1].verification_method.id

\* C6 as stated: adding K and removing K.id in one call leaves the whole
\* document as it was.
C6_Original == AddRemoveCase => doc = prev

\* the document has a method list, nothing in it has the id, no relationship
\* entry refers to the id, and no category is a present empty list
FreshFor(d, id) ==
    /\ IsSome(d.verification_method)
    /\ \A m \in Range(Methods(d)) : m.id # id
    /\ \A c \in Categories :
          /\ d[c] # Some(<<>>)
          /\ RefCount(Entries(d, c), id) = 0

\* C6 (amended): adding K and removing K.id in one call leaves the whole
\* document as it was, provided the document had a method list (present, even
\* if empty), held no method and no relationship entry with the id of K, and
\* had no relationship category that is a present empty list.
C6_AddRemoveFresh == (AddRemoveCase /\ FreshFor(prev, AddedId)) => doc = prev

\* K was added to and removed from a document that had other keys referenced
C6_Witness ==
    /\ AddRemoveCase
    /\ FreshFor(prev, AddedId)
    /\ IsSome(Unwrap(patches[1].public_keys)[1].purposes)
    /\ Len(Methods(prev)) > 0
    /\ IsSome(prev.authentication)
    /\ doc = prev

----------------------------------------------------------------------------
(* C7 *)

\* the ids of the methods of d, and of the references of category c
MethodIds(d) == {m.id : m \in Range(Methods(d))}

RefIds(d, c) == {e.key_id : e \in Range(Entries(d, c))}

\* the concrete scenario: one method k1 referenced in authentication and
\* assertionMethod, one service s1, and the call
\* [AddPublicKeys(k2 for authentication), RemoveServices([s1])]
ScenarioCase ==
    /\ Len(Methods(prev)) = 1 /\ MethodIds(prev) = {"k1"}
    /\ prev.authentication = Some(<<VmRelationshipFrom(K1)>>)
    /\ prev.assertion_method = Some(<<VmRelationshipFrom(K1)>>)
    /\ Len(UnwrapOrDefault(prev.service)) = 1
    /\ Unwrap(prev.service)[1].id = "s1"
    /\ Len(patches) = 2
    /\ patches[1].action = "AddPublicKeys"
    /\ patches[1].public_keys = Some(<<KeyK2>>)
    /\ patches[2].action = "RemoveServices"
    /\ patches[2].ids = Some(<<"s1">>)

\* what the scenario leaves in the methods and the relationship categories
ScenarioKeys ==
    /\ Len(Methods(doc)) = 2 /\ MethodIds(doc) = {"k1", "k2"}
    /\ Len(Entries(doc, "authentication")) = 2
    /\ RefIds(doc, "authentication") = {Some("k1"), Some("k2")}
    /\ Len(Entries(doc, "assertion_method")) = 1
    /\ RefIds(doc, "assertion_method") = {Some("k1")}

\* C7 as stated: the scenario yields methods {k1, k2}, authentication
\* {k1, k2}, assertionMethod {k1} and an absent services field.
C7_Original == ScenarioCase => (ScenarioKeys /\ doc.service = None)

\* C7 (amended): the scenario yields methods {k1, k2}, authentication
\* {k1, k2}, assertionMethod {k1} and a services field that is present and
\* empty.
C7_Scenario == ScenarioCase => (ScenarioKeys /\ doc.service = Some(<<>>))

\* the scenario was run
C7_Witness == ScenarioCase /\ doc.service = Some(<<>>) /\ ScenarioKeys

----------------------------------------------------------------------------
(* C8 *)

\* every patch of the last call lacks its action-appropriate payload
AllMalformed ==
    /\ Len(patches) > 0
    /\ \A i \in 1..Len(patches) : Malformed(patches[i])

\* C8: a patch whose action-appropriate payload is absent changes no field of
\* the document, whatever other fields it carries; apply_patches returns
\* normally (it has no error result).
C8_MalformedNoOp == AllMalformed => doc = prev

\* two malformed patches of different actions, both carrying fields of other
\* actions, were applied to a document that holds keys and services
C8_Witness ==
    /\ AllMalformed
    /\ Len(patches) = 2
    /\ patches[1].action = "RemovePublicKeys" /\ IsSome(patches[1].public_keys)
    /\ patches[2].action # patches[1].action
    /\ Len(Methods(prev)) > 0
    /\ Len(UnwrapOrDefault(prev.service)) > 0
    /\ doc = prev

----------------------------------------------------------------------------
(* C9 *)

\* C9: no relationship category of the document is ever a present empty list.
C9_NoPresentEmptyCategory == \A c \in Categories : doc[c] # Some(<<>>)

\* a call emptied a category that had entries
C9_Witness ==
    /\ Len(patches) > 0
    /\ \E c \in Categories : IsSome(prev[c]) /\ doc[c] = None

----------------------------------------------------------------------------
(* C10 *)

RECURSIVE ReferencesFor(_, _, _)
\* the references a key list declares for category c: for each key in order,
\* one reference per declaration of the purpose of c
ReferencesFor(keys, c, i) ==
    IF i > Len(keys) THEN <<>>
    ELSE SelectSeq(
             [j \in 1..Len(UnwrapOrDefault(keys[i].purposes)) |->
                 IF CategoryOf(Unwrap(keys[i].purposes)[j]) = c
                 THEN Some(VmRelationshipFrom(keys[i].verification_method))
                 ELSE None],
             LAMBDA o : IsSome(o))
         \o ReferencesFor(keys, c, i + 1)

\* the first patch of the last call is a Replace that carries a payload
ReplaceCase ==
    /\ Len(patches) > 0
    /\ patches[1].action = "Replace"
    /\ IsSome(patches[1].document)

\* the keys of the payload of that Replace, none when it has no key list
PayloadKeys == UnwrapOrDefault(Unwrap(patches[1].document).public_keys)

\* C10: Replace is total. After a Replace that carries a payload the method
\* list is exactly the payload's keys in order and each category is exactly
\* the references its keys declare; nothing of the previous document's methods
\* and relationship entries survives.
C10_ReplaceTotal ==
    ReplaceCase =>
        /\ Len(Methods(doc)) = Len(PayloadKeys)
        /\ \A i \in 1..Len(PayloadKeys) :
              Methods(doc)[i] = PayloadKeys[i].verification_method
        /\ \A c \in Categories :
              /\ Len(Entries(doc, c)) = Len(ReferencesFor(PayloadKeys, c, 1))
              /\ \A i \in 1..Len(Entries(doc, c)) :
                    Some(Entries(doc, c)[i]) = ReferencesFor(PayloadKeys, c, 1)[i]

----------------------------------------------------------------------------
(* C11 *)

\* every by-reference entry of every category names the id of a method of d
Consistent(d) ==
    \A c \in Categories :
        \A e \in Range(Entries(d, c)) :
            IsSome(e.key_id) => \E m \in Range(Methods(d)) : m.id = Unwrap(e.key_id)

\* C11: consistency. From a document whose by-reference entries all name a
\* method of the method list, no sequence of apply_patches calls produces a
\* by-reference entry that names no method of the list.
C11_NoDanglingReference == Consistent(doc)

\* a call removed a referenced method and the document still holds references
C11_Witness ==
    /\ Len(patches) > 0
    /\ Len(Methods(doc)) < Len(Methods(prev))
    /\ \E c \in Categories : Len(Entries(doc, c)) < Len(Entries(prev, c))
    /\ \E c \in Categories : \E e \in Range(Entries(doc, c)) : IsSome(e.key_id)

----------------------------------------------------------------------------
(* C20 *)

\* the last call applied one AddServices patch that carries a service list
AddServicesCase ==
    /\ SinglePatch
    /\ patches[1].action = "AddServices"
    /\ IsSome(patches[1].services)

\* C20: AddServices appends. The service list becomes the previous list (empty
\* when absent) followed by the patch's services in order; it is created when
\* absent and no existing service is removed, reordered or de-duplicated.
C20_AddServicesAppends ==
    AddServicesCase =>
        doc.service = Some(UnwrapOrDefault(prev.service) \o Unwrap(patches[1].services))

\* a service was appended to a list that already held a service with its id
C20_Witness ==
    /\ AddServicesCase
    /\ \E i \in 1..Len(UnwrapOrDefault(prev.service)) :
          Unwrap(prev.service)[i] = Unwrap(patches[1].services)[1]
    /\ Len(Unwrap(doc.service)) = Len(Unwrap(prev.service)) + 1

----------------------------------------------------------------------------
(* The state machine of one Builder: setter calls and build() in any order *)

\* a method whose id holds a space, and one whose id is empty
KBad == VerificationMethod("k 3", "jwk1")

KEmpty == VerificationMethod("", "jwk1")

\* the keys handed to Builder::public_key
BuilderKeys ==
    {KeyK2,
     VmWithPurpose(K1b, Some(<<"AssertionMethod", "KeyAgreement">>)),
     VmWithPurpose(K1, None),
     VmWithPurpose(K2, Some(<<"Authentication", "Authentication">>)),
     VmWithPurpose(KBad, Some(<<"KeyAgreement">>)),
     VmWithPurpose(KBad, Some(<<"KeyAgreement", "KeyAgreement">>)),
     VmWithPurpose(KEmpty, None)}

\* the ids handed to Builder::id
BuilderIds == {"k1", "k2", "s1", "k 3", ""}

\* the services handed to Builder::service
BuilderServices == {S1, S2}

\* a payload no setter of an add builder would take: a repeated id with a
\* character outside the permitted set, a repeated purpose, a repeated service
ReplacementBad ==
    PatchDocument(Some(<<VmWithPurpose(KBad, Some(<<"KeyAgreement", "KeyAgreement">>)),
                         VmWithPurpose(KBad, Some(<<"Authentication">>))>>),
                  Some(<<S1, S1>>))

\* the payloads handed to Builder::document
BuilderDocuments ==
    {ReplacementDocument, ReplacementRepeats, ReplacementNoKeys, ReplacementBad}

\* the record of a setter call with argument arg on builder b, with result r
SetterCall(op, arg, b, r) ==
    [op |-> op, arg |-> arg, err |-> r.err, before |-> b, built |-> None]

\* the arguments accepted so far, after a setter call with result r
Accept(arg, r) == IF r.err = "Ok" THEN Append(accepted, arg) ELSE accepted

\* Patch::builder(action)
InitBuilder ==
    /\ doc = DidDocumentDefault
    /\ prev = doc
    /\ patches = <<>>
    /\ applied = 0
    /\ idx = 1
    /\ pc = "idle"
    /\ \E a \in Action :
          /\ constructed = a
          /\ builder = BuilderNew(a)
          /\ call = [op |-> "new", arg |-> a, err |-> "Ok", before |-> builder,
                     built |-> None]
    /\ accepted = <<>>
    /\ reg = RegNone
    /\ oper = OperNone
    /\ ser = SerNone

\* builder.document(&d)
DocumentCall ==
    /\ \E d \in BuilderDocuments :
          LET r == BuilderDocument(builder, d)
          IN /\ builder' = r.builder
             /\ call' = SetterCall("document", d, builder, r)
             \* a document takes the place of the one set before
             /\ accepted' = IF r.err = "Ok" THEN <<d>> ELSE accepted
    /\ UNCHANGED <<constructed, engineVars>>
    /\ UNCHANGED <<registrarVars, codecVars, operatorVars>>

\* builder.service(&s)
ServiceCall ==
    /\ Len(builder.services) < MaxServices
    /\ \E sv \in BuilderServices :
          LET r == BuilderService(builder, sv)
          IN /\ builder' = r.builder
             /\ call' = SetterCall("service", sv, builder, r)
             /\ accepted' = Accept(sv, r)
    /\ UNCHANGED <<constructed, engineVars>>
    /\ UNCHANGED <<registrarVars, codecVars, operatorVars>>

\* builder.public_key(&k)
PublicKeyCall ==
    /\ \E k \in BuilderKeys :
          LET r == BuilderPublicKey(builder, k)
          IN /\ builder' = r.builder
             /\ call' = SetterCall("public_key", k, builder, r)
             /\ accepted' = Accept(k, r)
    /\ UNCHANGED <<constructed, engineVars>>
    /\ UNCHANGED <<registrarVars, codecVars, operatorVars>>

\* builder.id(x)
IdCall ==
    /\ \E x \in BuilderIds :
          LET r == BuilderId(builder, x)
          IN /\ builder' = r.builder
             /\ call' = SetterCall("id", x, builder, r)
             /\ accepted' = Accept(x, r)
    /\ UNCHANGED <<constructed, engineVars>>
    /\ UNCHANGED <<registrarVars, codecVars, operatorVars>>

\* builder.build(): takes &self, the builder stays as it is
BuildCall ==
    /\ LET r == BuilderBuild(builder)
       IN call' = [op |-> "build", arg |-> None, err |-> r.err, before |-> builder,
                   built |-> r.patch]
    /\ UNCHANGED <<constructed, builder, accepted>>
    /\ UNCHANGED engineVars
    /\ UNCHANGED <<registrarVars, codecVars, operatorVars>>

NextBuilder == DocumentCall \/ ServiceCall \/ PublicKeyCall \/ IdCall \/ BuildCall

SpecBuilder == InitBuilder /\ [][NextBuilder]_vars

----------------------------------------------------------------------------
(* Vocabulary of the Builder claims *)

Setters == {"document", "service", "public_key", "id"}

\* the setter op is the one meant for a builder of action a
Legal(op, a) ==
    \/ op = "document" /\ a = "Replace"
    \/ op = "service" /\ a = "AddServices"
    \/ op = "public_key" /\ a = "AddPublicKeys"
    \/ op = "id" /\ a \in {"RemovePublicKeys", "RemoveServices"}

\* the identifier holds a character outside the permitted set
BadId(id) == \E i \in 1..Len(IdChars(id)) : IdChars(id)[i] \notin PermittedChars

\* the sequence holds some element twice
Repeats(q) == \E i, j \in 1..Len(q) : i < j /\ q[i] = q[j]

\* the key declares some purpose twice
RepeatsPurpose(k) == IsSome(k.purposes) /\ Repeats(Unwrap(k.purposes))

\* the ids of a list of keys
KeyIds(keys) == [i \in 1..Len(keys) |-> keys[i].verification_method.id]

\* the last call was build() and it returned a patch
Built == call.op = "build" /\ call.err = "Ok"

----------------------------------------------------------------------------
(* C12 *)

\* C12: a setter called on a builder whose action it is not meant for
\* (document on other than Replace, service on other than AddServices,
\* public_key on other than AddPublicKeys, id on other than the two Remove
\* actions) returns an invalid-patch error, whatever its argument.
C12_WrongActionSetter ==
    (call.op \in Setters /\ ~Legal(call.op, call.before.action))
        => call.err = "InvalidPatch"

\* public_key has been called on a RemovePublicKeys builder with a sound key
C12_Witness ==
    /\ call.op = "public_key"
    /\ call.before.action = "RemovePublicKeys"
    /\ call.arg = KeyK2
    /\ call.err = "InvalidPatch"

----------------------------------------------------------------------------
(* C13 *)

\* C13: build() returns an invalid-patch error exactly when no item has been
\* accepted for the builder's action (no document, no key, no service, no id),
\* and returns a Patch in every other case.
C13_BuildErrors ==
    call.op = "build"
        => /\ call.err = "InvalidPatch" <=> accepted = <<>>
           /\ call.err = "Ok" <=> accepted # <<>>
           /\ IsSome(call.built) <=> call.err = "Ok"

\* build() has failed on an AddServices builder after only refused setters
C13_Witness ==
    /\ call.op = "build"
    /\ call.before.action = "AddServices"
    /\ accepted = <<>>
    /\ call.err = "InvalidPatch"

----------------------------------------------------------------------------
(* C14 *)

\* the one payload field of a patch of action a, and the value it holds
Payload(p, a) ==
    CASE a = "Replace" -> p.document
      [] a = "AddPublicKeys" -> p.public_keys
      [] a = "AddServices" -> p.services
      [] OTHER -> p.ids

\* the payload fields a patch of action a leaves out
Others(p, a) ==
    CASE a = "Replace" -> <<p.public_keys, p.services, p.ids>>
      [] a = "AddPublicKeys" -> <<p.document, p.services, p.ids>>
      [] a = "AddServices" -> <<p.document, p.public_keys, p.ids>>
      [] OTHER -> <<p.document, p.public_keys, p.services>>

\* C14: a Patch returned by build() has the action given at construction and
\* exactly one payload field present, the one of that action, holding the
\* items the setter accepted in insertion order (the document, for Replace);
\* the other three payload fields are absent.
C14_BuiltPatch ==
    Built =>
        LET p == Unwrap(call.built)
        IN /\ p.action = constructed
           /\ Payload(p, constructed) =
                 IF constructed = "Replace" THEN Some(accepted[Len(accepted)])
                 ELSE Some(accepted)
           /\ \A i \in 1..3 : Others(p, constructed)[i] = None

\* a patch of two keys has been built
C14_Witness ==
    /\ Built
    /\ constructed = "AddPublicKeys"
    /\ Len(accepted) = 2

----------------------------------------------------------------------------
(* C15 *)

\* the last call offered an AddPublicKeys builder a key whose id it holds
SameIdCase ==
    /\ call.op = "public_key"
    /\ call.before.action = "AddPublicKeys"
    /\ \E i \in 1..Len(call.before.public_keys) :
          call.before.public_keys[i].verification_method.id
              = call.arg.verification_method.id

\* the keys of every built AddPublicKeys patch have pairwise distinct ids
DistinctKeyIds ==
    (Built /\ constructed = "AddPublicKeys")
        => ~Repeats(KeyIds(Unwrap(Unwrap(call.built).public_keys)))

\* C15 as stated: the second public_key call with an id already held fails
\* with an invalid-patch error, and built key ids are pairwise distinct.
C15_Original ==
    /\ SameIdCase => call.err = "InvalidPatch"
    /\ DistinctKeyIds

\* C15: the second public_key call with an id already held fails: with an
\* invalid-input error when the offered key declares a purpose twice, with an
\* invalid-patch error otherwise; the builder keeps its keys, and the keys of
\* every built AddPublicKeys patch have pairwise distinct ids.
C15_SameIdFails ==
    /\ SameIdCase =>
          /\ call.err = IF RepeatsPurpose(call.arg) THEN "InvalidInput"
                        ELSE "InvalidPatch"
          /\ builder = call.before
    /\ DistinctKeyIds

\* a sound key has been refused because its id is held already
C15_Witness ==
    /\ SameIdCase
    /\ ~RepeatsPurpose(call.arg)
    /\ call.err = "InvalidPatch"

----------------------------------------------------------------------------
(* C16 *)

\* the identifier the last call was given
CallId == IF call.op = "id" THEN call.arg ELSE call.arg.verification_method.id

\* the last call was given an identifier with a character not permitted
BadIdCase == call.op \in {"id", "public_key"} /\ BadId(CallId)

\* nothing but the characters of the identifier could stop the last call
OnlyCharsCase ==
    \/ /\ call.op = "id"
       /\ Legal("id", call.before.action)
       /\ \A i \in 1..Len(call.before.ids) : call.before.ids[i] # call.arg
    \/ /\ call.op = "public_key"
       /\ Legal("public_key", call.before.action)
       /\ ~RepeatsPurpose(call.arg)
       /\ \A i \in 1..Len(call.before.public_keys) :
             call.before.public_keys[i].verification_method.id
                 # call.arg.verification_method.id

\* an identifier of permitted characters is not refused for its characters
PermittedAccepted == (OnlyCharsCase /\ ~BadId(CallId)) => call.err = "Ok"

\* C16: id and public_key fail with an invalid-input error whenever the
\* identifier holds a character outside [a-zA-Z0-9_-?#:/=&+%], and never
\* refuse an identifier of permitted characters on character grounds.
\* check_key_id raises Err::InvalidPatch for such an identifier, so the first
\* conjunct does not hold of the code: id("k 3") on a RemovePublicKeys
\* builder returns an invalid-patch error.
C16_Original ==
    /\ BadIdCase => call.err = "InvalidInput"
    /\ PermittedAccepted

----------------------------------------------------------------------------
(* C17 *)

\* the last call offered a key that declares a purpose twice
RepeatedPurposeCase == call.op = "public_key" /\ RepeatsPurpose(call.arg)

\* no key held by the builder or by a built patch declares a purpose twice
NoRepeatedPurposeHeld ==
    /\ \A i \in 1..Len(builder.public_keys) : ~RepeatsPurpose(builder.public_keys[i])
    /\ (Built /\ constructed = "AddPublicKeys")
          => \A i \in 1..Len(Unwrap(Unwrap(call.built).public_keys)) :
                ~RepeatsPurpose(Unwrap(Unwrap(call.built).public_keys)[i])

\* C17 as stated: public_key fails with an invalid-input error whenever the
\* key declares a purpose twice.
C17_Original ==
    /\ RepeatedPurposeCase => call.err = "InvalidInput"
    /\ NoRepeatedPurposeHeld

\* C17: public_key fails whenever the key declares a purpose twice, and
\* leaves the builder as it was: with an invalid-input error on an
\* AddPublicKeys builder when the key's id is of permitted characters, with
\* the invalid-patch error of a wrong setter on a builder of another action;
\* no key of a Builder-made AddPublicKeys patch declares a purpose twice.
C17_RepeatedPurposeFails ==
    /\ RepeatedPurposeCase =>
          /\ call.err # "Ok"
          /\ builder = call.before
          /\ (Legal("public_key", call.before.action)
                /\ ~BadId(call.arg.verification_method.id))
               => call.err = "InvalidInput"
          /\ ~Legal("public_key", call.before.action) => call.err = "InvalidPatch"
    /\ NoRepeatedPurposeHeld

\* an AddPublicKeys builder has refused a key of repeated purpose and sound id
C17_Witness ==
    /\ RepeatedPurposeCase
    /\ call.before.action = "AddPublicKeys"
    /\ call.arg.verification_method = K2
    /\ call.err = "InvalidInput"

----------------------------------------------------------------------------
(* C18 *)

\* the last call offered a Remove builder an id it holds
SameIdAgainCase ==
    /\ call.op = "id"
    /\ Legal("id", call.before.action)
    /\ \E i \in 1..Len(call.before.ids) : call.before.ids[i] = call.arg

\* C18: id(x) refuses an id the builder holds already; the ids of a
\* RemovePublicKeys or RemoveServices builder, and of the patch built from
\* it, are pairwise distinct and stand in the order of their first
\* successful insertion.
C18_IdsDistinct ==
    /\ SameIdAgainCase => (call.err # "Ok" /\ builder = call.before)
    /\ ~Repeats(builder.ids)
    /\ Legal("id", constructed) => builder.ids = accepted
    /\ (Built /\ Legal("id", constructed))
          => Unwrap(call.built).ids = Some(accepted)

\* a builder of two ids has refused the first of them
C18_Witness ==
    /\ SameIdAgainCase
    /\ Len(builder.ids) = 2
    /\ call.arg = builder.ids[1]
    /\ call.err # "Ok"

----------------------------------------------------------------------------
(* The loop of apply_patches, one patch per step *)

\* an iterator that stays on the patch it has yielded
NextIndexStuck(i) == i

\* the slice iterator of `for p in patches`: on to the following patch
NextIndex(i) == i + 1

\* apply_patches has been called with a list of up to MaxPatches patches
InitLoop ==
    /\ doc \in InitDocs
    /\ prev = doc
    /\ \E n \in 0..MaxPatches : patches \in [1..n -> Patches]
    /\ applied = 0
    /\ idx = 1
    /\ pc = "loop"
    /\ constructed = "Replace"
    /\ builder = BuilderIdle
    /\ call = CallNone
    /\ accepted = <<>>
    /\ reg = RegNone
    /\ oper = OperNone
    /\ ser = SerNone

\* the iterator yields a Replace patch: it is applied and the loop breaks
LoopReplace ==
    /\ pc = "loop"
    /\ idx <= Len(patches)
    /\ patches[idx].action = "Replace"
    /\ doc' = apply_replace(doc, patches[idx])
    /\ idx' = NextIndex(idx)
    /\ pc' = "done"
    /\ UNCHANGED <<prev, patches, applied>>
    /\ UNCHANGED builderVars
    /\ UNCHANGED <<registrarVars, codecVars, operatorVars>>

\* the iterator yields a patch of another action: it is applied
LoopOther ==
    /\ pc = "loop"
    /\ idx <= Len(patches)
    /\ patches[idx].action # "Replace"
    /\ doc' = ApplyOne(doc, patches[idx])
    /\ idx' = NextIndex(idx)
    /\ UNCHANGED <<prev, patches, applied, pc>>
    /\ UNCHANGED builderVars
    /\ UNCHANGED <<registrarVars, codecVars, operatorVars>>

\* the iterator is exhausted: apply_patches returns
LoopExit ==
    /\ pc = "loop"
    /\ idx > Len(patches)
    /\ pc' = "done"
    /\ UNCHANGED <<doc, prev, patches, applied, idx>>
    /\ UNCHANGED builderVars
    /\ UNCHANGED <<registrarVars, codecVars, operatorVars>>

NextLoop == LoopReplace \/ LoopOther \/ LoopExit

\* the loop is straight-line code of one thread: a step that can be taken is
SpecLoop == InitLoop /\ [][NextLoop]_vars /\ WF_vars(NextLoop)

----------------------------------------------------------------------------
(* C19 *)

\* a step of the loop that touches the document or the iterator visits the
\* patch the iterator stands on, and leaves the iterator on the next one
VisitsForward ==
    (doc' # doc \/ idx' # idx)
        => /\ pc = "loop"
           /\ idx \in 1..Len(patches)
           /\ idx' = idx + 1
           /\ doc' = IF patches[idx].action = "Replace"
                     THEN apply_replace(doc, patches[idx])
                     ELSE ApplyOne(doc, patches[idx])

\* C19: apply_patches terminates for every document and every finite patch
\* list; each step visits the patch after the one visited before, so that
\* every patch is visited at most once and none is visited again; the
\* document it returns is the one apply_patches computes for the call.
C19_Terminates ==
    /\ <>(pc = "done")
    /\ [][VisitsForward]_vars
    /\ [](pc = "done" => doc = apply_patches(prev, patches))

\* the loop has returned after visiting both patches of a list of two
C19_Witness ==
    /\ pc = "done"
    /\ Len(patches) = 2
    /\ idx = 3
    /\ patches[1].action = "AddPublicKeys"
    /\ patches[2].action = "RemovePublicKeys"
    /\ doc # prev

----------------------------------------------------------------------------
(* C21 *)

\* the last call applied one RemoveServices patch that carries an id list
RemoveServicesCase ==
    /\ SinglePatch
    /\ patches[1].action = "RemoveServices"
    /\ IsSome(patches[1].ids)

\* C21: after a RemoveServices patch that carries an id list no service has
\* an id of the list and the services with other ids are kept in their
\* order; a document without a service list is left as it was.
C21_RemoveServices ==
    RemoveServicesCase =>
        IF prev.service = None THEN doc = prev
        ELSE doc.service =
                Some(SelectSeq(Unwrap(prev.service),
                               LAMBDA sv : sv.id \notin Range(Unwrap(patches[1].ids))))

\* one service was removed from between two that were kept
C21_Witness ==
    /\ RemoveServicesCase
    /\ prev.service = Some(<<S2, S1, S2>>)
    /\ doc.service = Some(<<S2, S2>>)

----------------------------------------------------------------------------
(* C26 *)

\* the last call applied one AddPublicKeys patch that carries a key list
AddKeysAnyCase ==
    /\ SinglePatch
    /\ patches[1].action = "AddPublicKeys"
    /\ IsSome(patches[1].public_keys)

\* the methods of a key list, in order
MethodsOf(keys) == [i \in 1..Len(keys) |-> keys[i].verification_method]

\* one reference for each key of the list that declares the purpose of c
OnePerKey(keys, c) ==
    LET Declares(k) == \E j \in 1..Len(UnwrapOrDefault(k.purposes)) :
                           CategoryOf(Unwrap(k.purposes)[j]) = c
        declaring == SelectSeq(keys, Declares)
    IN [i \in 1..Len(declaring) |-> VmRelationshipFrom(declaring[i].verification_method)]

\* one reference for each declaration of the purpose of c by a key of the list
OnePerDeclaration(keys, c) ==
    [i \in 1..Len(ReferencesFor(keys, c, 1)) |-> Unwrap(ReferencesFor(keys, c, 1)[i])]

\* C26 as stated: the method list is the previous one followed by the patch's
\* methods, and each category is its previous list followed by one reference
\* for each key that declares its purpose.
C26_Original ==
    AddKeysAnyCase =>
        LET keys == Unwrap(patches[1].public_keys)
        IN /\ Methods(doc) = Methods(prev) \o MethodsOf(keys)
           /\ \A c \in Categories :
                 Entries(doc, c) = Entries(prev, c) \o OnePerKey(keys, c)

\* C26: AddPublicKeys is a pure append. The method list is the previous one
\* followed by the patch's methods in patch order, and each category is its
\* previous list followed, in patch order, by one reference for each
\* declaration of its purpose by a key (one for each key when no key declares
\* a purpose twice); a key without purposes is referenced by no category and
\* no existing entry is removed or reordered.
C26_PureAppend ==
    AddKeysAnyCase =>
        LET keys == Unwrap(patches[1].public_keys)
        IN /\ Methods(doc) = Methods(prev) \o MethodsOf(keys)
           /\ \A c \in Categories :
                 Entries(doc, c) = Entries(prev, c) \o OnePerDeclaration(keys, c)

\* a patch with a key that declares a purpose twice and a key without
\* purposes was applied to a document that has methods and references
C26_Witness ==
    /\ AddKeysAnyCase
    /\ prev = DocTwoKeys
    /\ Len(Unwrap(patches[1].public_keys)) = 2
    /\ Unwrap(patches[1].public_keys)[2] = VmWithPurpose(K1, None)
    /\ Methods(doc) = <<K2, K1, K2, K1>>
    /\ Entries(doc, "authentication")
          = <<VmRelationshipFrom(K2), VmRelationshipFrom(K2), VmRelationshipFrom(K2)>>

----------------------------------------------------------------------------
(* C27 *)

\* C27: after a Replace whose payload has a service list the document's
\* service list is exactly that list; after one whose payload has none the
\* service list is as it was.
C27_ReplaceServices ==
    ReplaceCase =>
        doc.service = IF IsSome(Unwrap(patches[1].document).services)
                      THEN Unwrap(patches[1].document).services
                      ELSE prev.service

\* a Replace without a service list was applied to a document with services
C27_Witness ==
    /\ ReplaceCase
    /\ Unwrap(patches[1].document).services = None
    /\ prev.service = Some(<<S1, S2>>)
    /\ doc.service = Some(<<S1, S2>>)
    /\ doc # prev

----------------------------------------------------------------------------
(* C28 *)

\* every patch of the last call is an AddPublicKeys that carries a key list
AddOnlyCase ==
    /\ Len(patches) > 0
    /\ \A i \in 1..Len(patches) :
          patches[i].action = "AddPublicKeys" /\ IsSome(patches[i].public_keys)

RECURSIVE KeysOf(_, _)
\* the keys of the patches of a list, from index i on
KeysOf(ps, i) ==
    IF i > Len(ps) THEN <<>> ELSE Unwrap(ps[i].public_keys) \o KeysOf(ps, i + 1)

\* how many methods of the list have the id
MethodCount(list, id) == Cardinality({i \in 1..Len(list) : list[i].id = id})

\* C28: no de-duplication across patches. AddPublicKeys patches applied to a
\* document, in one call or in one call after another, append every method
\* and every declared reference in application order, also for an id the
\* document or an earlier patch holds already: two patches with the same key
\* leave two more methods of its id and two more references in its category.
C28_NoDeduplication ==
    AddOnlyCase =>
        /\ Methods(doc) = Methods(prev) \o MethodsOf(KeysOf(patches, 1))
        /\ \A c \in Categories :
              Entries(doc, c) = Entries(prev, c)
                                    \o OnePerDeclaration(KeysOf(patches, 1), c)

\* one call applied the same key patch twice
C28_Witness ==
    /\ AddOnlyCase
    /\ patches = <<Patch("AddPublicKeys", None, None, None, Some(<<KeyK2>>)),
                   Patch("AddPublicKeys", None, None, None, Some(<<KeyK2>>))>>
    /\ MethodCount(Methods(prev), "k2") = 0
    /\ MethodCount(Methods(doc), "k2") = 2
    /\ RefCount(Entries(doc, "authentication"), "k2") = 2

----------------------------------------------------------------------------
(* C29 *)

\* every patch of the last call is a key patch, whatever it carries
KeyPatchCase ==
    /\ Len(patches) > 0
    /\ \A i \in 1..Len(patches) :
          patches[i].action \in {"AddPublicKeys", "RemovePublicKeys"}

\* the embedded entries of a list, in order
EmbeddedOf(list) ==
    SelectSeq(list, LAMBDA e : e.key_id = None /\ IsSome(e.verification_method))

\* list a is the beginning of list b
IsPrefix(a, b) == Len(a) <= Len(b) /\ \A i \in 1..Len(a) : a[i] = b[i]

\* C29: AddPublicKeys and RemovePublicKeys patches with any payload keep
\* every embedded entry in its category and in its place among the entries
\* that stay, even when a removed id is the id of the embedded method: the
\* embedded entries of each category are the same list before and after, an
\* add keeps the previous entries at the front, and a remove takes out
\* nothing but the references to its ids.
C29_EmbeddedUntouched ==
    KeyPatchCase =>
        \A c \in Categories :
            /\ EmbeddedOf(Entries(doc, c)) = EmbeddedOf(Entries(prev, c))
            /\ (SinglePatch /\ patches[1].action = "AddPublicKeys")
                  => IsPrefix(Entries(prev, c), Entries(doc, c))
            /\ (SinglePatch /\ patches[1].action = "RemovePublicKeys"
                    /\ IsSome(patches[1].ids))
                  => Entries(doc, c) =
                        SelectSeq(Entries(prev, c),
                                  LAMBDA e : ~KeyIdIn(e, Range(Unwrap(patches[1].ids))))

\* the ids of both embedded methods were removed and the entries stayed
C29_Witness ==
    /\ KeyPatchCase
    /\ prev = DocEmbedded
    /\ patches = <<Patch("RemovePublicKeys", None, None, Some(<<"k1", "k2">>), None)>>
    /\ doc.authentication = Some(<<VmRelationshipEmbedded(K2)>>)
    /\ doc.key_agreement = Some(<<VmRelationshipEmbedded(K1)>>)
    /\ Methods(doc) = <<>>

----------------------------------------------------------------------------
(* The state machine of the did:web registrar *)

\* the outcomes of keyring.next_key(&KeyOperation::Sign) and signing_key.check
KeyRingOutcomes == {"Ok", "NextKeyError", "CheckError"}

\* values of rand_hex(8)
RandHex == {"1f9a03c7", "e4b8d2a6"}

\* the Option<&[Service]> arguments of create
ServiceArgs ==
    {None} \cup {Some(svcs) : svcs \in UNION {[1..n -> BuilderServices] : n \in 0..MaxServices}}

\* the DIDs handed to deactivate
Dids == {"did:web:example.com", ""}

\* the patches handed to update: one of each action, the removal naming the
\* key of a created document
RegistrarPatches ==
    {Patch("Replace", Some(ReplacementDocument), None, None, None),
     Patch("AddPublicKeys", None, None, None, Some(<<KeyK2>>)),
     Patch("RemovePublicKeys", None, None, Some(<<"1f9a03c7", "k1">>), None),
     Patch("AddServices", None, Some(<<S2>>), None, None),
     Patch("RemoveServices", None, None, Some(<<"s1">>), None)}

\* documents read back from storage
StoredDocs == {DocDefault, DocEmbedded}

\* the documents handed to update and recover: stored ones and the one the
\* registrar returned last
RegistrarDocs == StoredDocs \cup (IF IsSome(reg.value) THEN {Unwrap(reg.value)} ELSE {})

InitRegistrar ==
    /\ doc = DidDocumentDefault
    /\ prev = doc
    /\ patches = <<>>
    /\ applied = 0
    /\ idx = 1
    /\ pc = "idle"
    /\ constructed = "Replace"
    /\ builder = BuilderIdle
    /\ call = CallNone
    /\ accepted = <<>>
    /\ reg = RegNone
    /\ oper = OperNone
    /\ ser = SerNone

\* registrar.create(services); doc and prev stand for the document a call is
\* given by reference, and a call that is given none leaves them at the default
CreateCall ==
    /\ \E services \in ServiceArgs, ring \in KeyRingOutcomes, hex \in RandHex :
          LET r == create(services, ring, hex)
          IN reg' = [op |-> "create", services |-> services, ring |-> ring, err |-> r.err,
                     value |-> r.value]
    /\ doc' = DidDocumentDefault
    /\ prev' = DidDocumentDefault
    /\ patches' = <<>>
    /\ UNCHANGED <<applied, idx, pc>>
    /\ UNCHANGED <<builderVars, codecVars, operatorVars>>

\* registrar.update(&d, &ps): doc is d as the caller finds it after the call
UpdateCall ==
    /\ \E d \in RegistrarDocs :
          \E n \in 0..(MaxPatches - applied) :
              \E ps \in [1..n -> RegistrarPatches] :
                  LET r == update(d, ps)
                  IN /\ prev' = d
                     /\ doc' = Unwrap(r.passed)
                     /\ patches' = ps
                     /\ applied' = applied + n
                     /\ reg' = [op |-> "update", services |-> None, ring |-> "none",
                                err |-> r.err,
                                value |-> r.value]
    /\ UNCHANGED <<idx, pc>>
    /\ UNCHANGED <<builderVars, codecVars, operatorVars>>

\* registrar.deactivate(did)
DeactivateCall ==
    /\ \E did \in Dids :
          LET r == deactivate(did)
          IN reg' = [op |-> "deactivate", services |-> None, ring |-> "none",
                     err |-> r.err,
                     value |-> r.value]
    /\ doc' = DidDocumentDefault
    /\ prev' = DidDocumentDefault
    /\ patches' = <<>>
    /\ UNCHANGED <<applied, idx, pc>>
    /\ UNCHANGED <<builderVars, codecVars, operatorVars>>

\* registrar.recover(&d)
RecoverCall ==
    /\ \E d \in RegistrarDocs :
          LET r == recover(d)
          IN /\ prev' = d
             /\ doc' = Unwrap(r.passed)
             /\ reg' = [op |-> "recover", services |-> None, ring |-> "none",
                                err |-> r.err,
                        value |-> r.value]
    /\ patches' = <<>>
    /\ UNCHANGED <<applied, idx, pc>>
    /\ UNCHANGED <<builderVars, codecVars, operatorVars>>

NextRegistrar == CreateCall \/ UpdateCall \/ DeactivateCall \/ RecoverCall

SpecRegistrar == InitRegistrar /\ [][NextRegistrar]_vars

----------------------------------------------------------------------------
(* C24 *)

\* the last call was a create that returned a document
Created == reg.op = "create" /\ reg.err = "Ok"

\* C24: the document create returns has exactly one verification method,
\* whose id is referenced exactly once in authentication, exactly once in
\* assertionMethod and in no other category; its service list is the list of
\* services supplied, in order, and absent when none is supplied; its id is
\* empty.
C24_CreatedDocument ==
    Created =>
        LET d == Unwrap(reg.value)
        IN /\ Len(Methods(d)) = 1
           /\ \A c \in Categories :
                 RefCount(Entries(d, c), Methods(d)[1].id)
                     = IF c \in {"authentication", "assertion_method"} THEN 1 ELSE 0
           /\ \A c \in Categories : Len(Entries(d, c)) = RefCount(Entries(d, c), Methods(d)[1].id)
           /\ d.service = reg.services
           /\ d.id = ""

\* create has returned a document for two services
C24_Witness ==
    /\ Created
    /\ reg.services = Some(<<S2, S1>>)
    /\ Unwrap(reg.value).service = Some(<<S2, S1>>)
    /\ Methods(Unwrap(reg.value))[1].id = "e4b8d2a6"

----------------------------------------------------------------------------
(* C25 *)

\* C25: update never changes the document passed in, always succeeds and
\* returns the result of apply_patches on a copy of that document; deactivate
\* and recover always return a not-supported error and change nothing.
C25_RegistrarFrame ==
    /\ reg.op = "update" =>
          /\ doc = prev
          /\ reg.err = "Ok"
          /\ reg.value = Some(apply_patches(prev, patches))
    /\ reg.op \in {"deactivate", "recover"} =>
          /\ doc = prev
          /\ reg.err = "NotSupported"
          /\ reg.value = None

\* update has returned a document that differs from the one passed in
C25_Witness ==
    /\ reg.op = "update"
    /\ Len(patches) = 2
    /\ doc = prev
    /\ Unwrap(reg.value) # doc

----------------------------------------------------------------------------
(* The state machine of one single-or-list field *)

\* the elements a field of type T can hold
Elements(T) ==
    CASE T = "String" -> {Elem("Str", "item1"), Elem("Str", "item2"), Elem("Str", "["),
                          Elem("Str", "[\"item1\",\"item2\"]")}
      [] T = "Nested" -> {Elem("Obj", "object1"), Elem("Obj", "object2")}
      [] T = "Either" -> {Elem("Str", "item1"), Elem("Obj", "object1")}

\* the Vec<T> values of up to MaxLen elements
Vecs(T) == UNION {[1..n -> Elements(T)] : n \in 0..MaxLen}

\* the items of the arrays on the wire
WireItems ==
    {JString("item1"), JString("["), JObject("object1"), JNumber("1"), JNull}

\* the wire forms handed to deserialize
WireForms ==
    {JNull, JNumber("1"), JObject("object1"),
     JString("item1"), JString("["), JString("[]"), JString("[1]"),
     JString("[\"item1\",\"item2\"]"), JString("[{\"n\":\"object1\"}]")}
    \cup {JArray(items) : items \in UNION {[1..n -> WireItems] : n \in 0..MaxLen}}

\* a field of a struct: its element type, whether it is an Option, whether it
\* is declared skip_serializing_if, and the value it holds
InitCodec ==
    /\ doc = DidDocumentDefault
    /\ prev = doc
    /\ patches = <<>>
    /\ applied = 0
    /\ idx = 1
    /\ pc = "idle"
    /\ constructed = "Replace"
    /\ builder = BuilderIdle
    /\ call = CallNone
    /\ accepted = <<>>
    /\ reg = RegNone
    /\ oper = OperNone
    /\ \E T \in ElementTypes, optional \in BOOLEAN, skip \in BOOLEAN :
          /\ skip => optional
          /\ \E value \in IF optional THEN {None} \cup {Some(v) : v \in Vecs(T)}
                          ELSE Vecs(T) :
                ser = [op |-> "new", T |-> T, optional |-> optional, skip |-> skip,
                       value |-> value, wire |-> JAbsent, err |-> "Ok",
                       back |-> IF optional THEN None ELSE <<>>]

\* serde_json::to_value(&data): the field is written
SerializeCall ==
    /\ ser.op = "new"
    /\ ser' = [ser EXCEPT !.op = "serialized",
                          !.wire = EmitField(ser.optional, ser.skip, ser.value)]
    /\ UNCHANGED <<engineVars, builderVars, registrarVars, operatorVars>>

\* serde_json::from_value(json): the field that was written is read back
DeserializeCall ==
    /\ ser.op = "serialized"
    /\ LET r == ReadField(ser.T, ser.optional, ser.wire)
       IN ser' = [ser EXCEPT !.op = "read back", !.err = r.err, !.back = r.value]
    /\ UNCHANGED <<engineVars, builderVars, registrarVars, operatorVars>>

\* serde_json::from_value(json) on a wire form that comes from elsewhere
DeserializeWireCall ==
    /\ ser.op = "new"
    /\ ser.value = IF ser.optional THEN None ELSE <<>>
    /\ ~ser.skip
    /\ \E w \in WireForms :
          LET r == ReadField(ser.T, ser.optional, w)
          IN ser' = [ser EXCEPT !.op = "read", !.wire = w, !.err = r.err,
                                !.back = r.value]
    /\ UNCHANGED <<engineVars, builderVars, registrarVars, operatorVars>>

NextCodec == SerializeCall \/ DeserializeCall \/ DeserializeWireCall

SpecCodec == InitCodec /\ [][NextCodec]_vars

----------------------------------------------------------------------------
(* C22 *)

\* the field is present and holds this sequence
Held == IF ser.optional THEN Unwrap(ser.value) ELSE ser.value

\* the field holds a sequence (it is not an absent optional field)
Present == ~ser.optional \/ IsSome(ser.value)

\* a sequence as the field's variant holds it
Wrap(v) == IF ser.optional THEN Some(v) ELSE v

\* C22: round trip. Reading back the serialized form of any sequence gives a
\* sequence equal to it, absent stays absent and present stays present, and
\* the bare form and the one-element-array form of an element both read as
\* the one-element sequence of that element.
C22_RoundTrip ==
    /\ ser.op = "read back" => (ser.err = "Ok" /\ ser.back = ser.value)
    /\ (ser.op = "serialized" /\ Present /\ Len(Held) = 1) =>
          /\ ReadField(ser.T, ser.optional, ElemToJson(Held[1]))
                = DeResult("Ok", Wrap(Held))
          /\ ReadField(ser.T, ser.optional, JArray(<<ElemToJson(Held[1])>>))
                = DeResult("Ok", Wrap(Held))

----------------------------------------------------------------------------
(* C23 *)

\* C23: the shape of the serialized field. One element is written as the
\* bare element and not as an array; no element or two and more are written
\* as an array of the elements in order; an absent optional field is left
\* out and is written neither as null nor as an empty array.
C23_SerializedShape ==
    ser.op = "serialized" =>
        IF ~Present THEN ser.wire = JAbsent
        ELSE IF Len(Held) = 1
             THEN ser.wire = ElemToJson(Held[1]) /\ ser.wire.kind # "array"
             ELSE /\ ser.wire.kind = "array"
                  /\ Len(ser.wire.items) = Len(Held)
                  /\ \A i \in 1..Len(Held) : ser.wire.items[i] = ElemToJson(Held[i])

----------------------------------------------------------------------------
(* C30 *)

\* the element type reads JSON strings / JSON objects
ReadsStrings(T) == T \in {"String", "Either"}

ReadsObjects(T) == T \in {"Nested", "Either"}

\* every item is a string or an object that the element type reads
AllReadable(T, items) ==
    \A i \in 1..Len(items) :
        \/ items[i].kind = "string" /\ ReadsStrings(T)
        \/ items[i].kind = "object" /\ ReadsObjects(T)

\* the elements of the items, in wire order
InWireOrder(items) ==
    [i \in 1..Len(items) |->
        Elem(IF items[i].kind = "string" THEN "Str" ELSE "Obj", items[i].text)]

\* the field was read as this sequence
ReadAs(v) == ser.err = "Ok" /\ ser.back = Wrap(v)

\* C30: deserialization accepts a bare string, a bare object, an array of
\* strings and objects in any mix, and a string beginning with '[' that
\* holds a JSON array, each for the elements the field's type reads, and
\* gives the elements as a sequence in wire order; an array with an element
\* that is neither a string nor an object is rejected with an error.
C30_Deserialize ==
    ser.op = "read" =>
        LET w == ser.wire
        IN /\ (w.kind = "string" /\ ~StartsWithBracket(w.text) /\ ReadsStrings(ser.T))
                 => ReadAs(<<Elem("Str", w.text)>>)
           /\ (w.kind = "object" /\ ReadsObjects(ser.T))
                 => ReadAs(<<Elem("Obj", w.text)>>)
           /\ (w.kind = "array" /\ AllReadable(ser.T, w.items))
                 => ReadAs(InWireOrder(w.items))
           /\ (w.kind = "string" /\ StartsWithBracket(w.text)
                 /\ ParseJson(w.text).kind = "array"
                 /\ AllReadable(ser.T, ParseJson(w.text).items))
                 => ReadAs(InWireOrder(ParseJson(w.text).items))
           /\ (w.kind = "array"
                 /\ \E i \in 1..Len(w.items) : w.items[i].kind \notin {"string", "object"})
                 => ser.err = "Error"

\* an array of a string and an object was read in wire order
C30_Witness ==
    /\ ser.op = "read"
    /\ ser.T = "Either"
    /\ ser.wire = JArray(<<JString("item1"), JObject("object1")>>)
    /\ ser.err = "Ok"
    /\ ser.back = Wrap(<<Elem("Str", "item1"), Elem("Obj", "object1")>>)

----------------------------------------------------------------------------
(* C32 *)

\* the payload fields of builder b that its action has no use for are empty
IllegalFieldsEmpty(b) ==
    /\ b.action # "Replace" => b.document = None
    /\ b.action # "AddServices" => b.services = <<>>
    /\ b.action # "AddPublicKeys" => b.public_keys = <<>>
    /\ b.action \notin {"RemovePublicKeys", "RemoveServices"} => b.ids = <<>>

\* C32: the builder changes only through a successful setter. Its action is
\* the one given at construction; a setter call that returns an error leaves
\* document, services, ids and public_keys as they were; build() leaves the
\* builder as it was, so that a second build() returns what the first did;
\* the payload fields that are not legal for the action stay empty.
C32_BuilderFrame ==
    /\ builder.action = constructed
    /\ (call.op \in Setters /\ call.err # "Ok") => builder = call.before
    /\ call.op = "build" =>
          /\ builder = call.before
          /\ BuilderBuild(builder) = BuildResult(call.err, call.built)
    /\ IllegalFieldsEmpty(builder)

\* a builder that holds two ids has refused a third call and kept them
C32_Witness ==
    /\ call.op = "id"
    /\ call.err # "Ok"
    /\ Len(call.before.ids) = 2
    /\ builder.ids = call.before.ids

----------------------------------------------------------------------------
(* C37 *)

\* the last call offered the empty identifier where nothing else is in its way
EmptyIdCase == OnlyCharsCase /\ CallId = ""

\* C37: the identifier check accepts the empty string. id("") on a remove
\* builder and public_key of a key whose id is empty succeed unless a
\* duplicate check refuses them, and the builder then holds the empty
\* identifier, which build() hands on to the patch.
C37_EmptyIdAccepted ==
    /\ EmptyIdCase =>
          /\ call.err = "Ok"
          /\ call.op = "id" => builder.ids = Append(call.before.ids, "")
          /\ call.op = "public_key"
                => builder.public_keys = Append(call.before.public_keys, call.arg)
    /\ (Built /\ Legal("id", constructed) /\ "" \in Range(accepted))
          => "" \in Range(Unwrap(Unwrap(call.built).ids))

\* a patch that removes the empty identifier has been built
C37_Witness ==
    /\ Built
    /\ constructed = "RemovePublicKeys"
    /\ Unwrap(call.built).ids = Some(<<"k1", "">>)

----------------------------------------------------------------------------
(* C33 *)

\* every patch of the last call has one of the given actions
OnlyActions(as) == \A i \in 1..Len(patches) : patches[i].action \in as

\* C33: no patch of any action changes the document's id, context,
\* controller or also_known_as; AddServices and RemoveServices patches never
\* change the method list or any of the five relationship categories;
\* AddPublicKeys and RemovePublicKeys patches never change the service list.
C33_PatchFrame ==
    /\ doc.id = prev.id
    /\ doc.context = prev.context
    /\ doc.controller = prev.controller
    /\ doc.also_known_as = prev.also_known_as
    /\ OnlyActions({"AddServices", "RemoveServices"}) =>
          /\ doc.verification_method = prev.verification_method
          /\ \A c \in Categories : doc[c] = prev[c]
    /\ OnlyActions({"AddPublicKeys", "RemovePublicKeys"}) => doc.service = prev.service

\* service patches have changed the services of a document with a controller,
\* a method and two categories, all of which it still has
C33_Witness ==
    /\ patches # <<>>
    /\ OnlyActions({"AddServices", "RemoveServices"})
    /\ doc.service # prev.service
    /\ IsSome(doc.controller)
    /\ Methods(doc) # <<>>
    /\ IsSome(doc.authentication) /\ IsSome(doc.assertion_method)

----------------------------------------------------------------------------
(* C35 *)

\* the ids the patches of the given action in the last call name
RemovedBy(action) ==
    UNION {Range(UnwrapOrDefault(patches[i].ids)) :
             i \in {j \in 1..Len(patches) : patches[j].action = action}}

\* every element of the list has an id among ids
AllNamed(list, ids) == \A i \in 1..Len(list) : list[i].id \in ids

\* C35: removal empties a list but never makes it absent. After
\* RemovePublicKeys patches that name every method the method list is a
\* present empty list, and after RemoveServices patches that name every
\* service the service list is a present empty list; a list that was absent
\* before the removal is absent after it.
C35_EmptiedListsStay ==
    OnlyActions({"RemovePublicKeys", "RemoveServices"}) =>
        /\ IsSome(doc.verification_method) = IsSome(prev.verification_method)
        /\ IsSome(doc.service) = IsSome(prev.service)
        /\ (IsSome(prev.verification_method)
              /\ AllNamed(Methods(prev), RemovedBy("RemovePublicKeys")))
             => doc.verification_method = Some(<<>>)
        /\ (IsSome(prev.service)
              /\ AllNamed(Unwrap(prev.service), RemovedBy("RemoveServices")))
             => doc.service = Some(<<>>)

\* one call removed all methods and all services of a document: both lists
\* are present and empty, and the categories that referred to the methods
\* are absent
C35_Witness ==
    /\ Len(patches) = 2
    /\ OnlyActions({"RemovePublicKeys", "RemoveServices"})
    /\ Len(Methods(prev)) > 1
    /\ Len(UnwrapOrDefault(prev.service)) > 1
    /\ doc.verification_method = Some(<<>>)
    /\ doc.service = Some(<<>>)
    /\ IsSome(prev.assertion_method)
    /\ \A c \in Categories : doc[c] = None

----------------------------------------------------------------------------
(* C38 *)

\* the last call was a create whose keyring produced a usable key
CreateWithKey == reg.op = "create" /\ reg.ring = "Ok"

\* C38: create with a present but empty service list returns an
\* invalid-patch error and no document, whereas create with no service list
\* succeeds and returns a document without services.
C38_EmptyServiceList ==
    CreateWithKey =>
        /\ reg.services = Some(<<>>) => (reg.err = "InvalidPatch" /\ reg.value = None)
        /\ reg.services = None =>
              /\ reg.err = "Ok"
              /\ IsSome(reg.value)
              /\ Unwrap(reg.value).service = None

\* create was handed an empty service list and returned the error
C38_Witness ==
    /\ CreateWithKey
    /\ reg.services = Some(<<>>)
    /\ reg.err = "InvalidPatch"

----------------------------------------------------------------------------
(* C39 *)

\* the wire form read last is a string that begins with '[' and is not a
\* JSON array of elements the field's type reads
BrokenArrayText ==
    /\ ser.op = "read"
    /\ ser.wire.kind = "string"
    /\ StartsWithBracket(ser.wire.text)
    /\ ~(ParseJson(ser.wire.text).kind = "array"
           /\ AllReadable(ser.T, ParseJson(ser.wire.text).items))

\* C39: a string that begins with '[' and is not a valid JSON array of the
\* element type does not fail. It reads as the empty sequence, which the
\* optional variant holds as a present, empty sequence.
C39_BrokenArrayReadsEmpty ==
    BrokenArrayText =>
        /\ ser.err = "Ok"
        /\ ser.back = IF ser.optional THEN Some(<<>>) ELSE <<>>

\* an optional field of strings has read "[1]" as a present, empty sequence
C39_Witness ==
    /\ BrokenArrayText
    /\ ser.T = "String"
    /\ ser.optional
    /\ ser.wire = JString("[1]")
    /\ ser.err = "Ok"
    /\ ser.back = Some(<<>>)

----------------------------------------------------------------------------
(* C36 *)

\* the last call was build() on a Replace builder and it returned a patch
BuiltReplace == Built /\ constructed = "Replace"

\* C36: document(payload) validates nothing. On a Replace builder it succeeds
\* and stores the payload whatever ids and purposes its keys have; build()
\* hands the payload on unchanged, and applying the patch to a document makes
\* the payload's methods the method list, repeated ids included, with one
\* reference for every declaration of a purpose, repeated ones included.
C36_DocumentUnvalidated ==
    /\ (call.op = "document" /\ Legal("document", call.before.action)) =>
          /\ call.err = "Ok"
          /\ builder.document = Some(call.arg)
    /\ BuiltReplace =>
          LET p == Unwrap(call.built)
          IN /\ p.document = builder.document
             /\ IsSome(Unwrap(p.document).public_keys) =>
                   \A d \in InitDocs :
                       LET keys == Unwrap(Unwrap(p.document).public_keys)
                           after == apply_patches(d, <<p>>)
                       IN /\ Methods(after) = MethodsOf(keys)
                          /\ \A c \in Categories :
                                Entries(after, c) = OnePerDeclaration(keys, c)

\* a patch was built from a payload with a repeated, unpermitted id and a
\* repeated purpose, and applying it leaves two methods of that id and two
\* references to it in keyAgreement
C36_Witness ==
    /\ BuiltReplace
    /\ Unwrap(call.built).document = Some(ReplacementBad)
    /\ LET after == apply_patches(DocDefault, <<Unwrap(call.built)>>)
       IN /\ after.verification_method = Some(<<KBad, KBad>>)
          /\ BadId(KBad.id)
          /\ after.key_agreement
                = Some(<<VmRelationshipFrom(KBad), VmRelationshipFrom(KBad)>>)

----------------------------------------------------------------------------
(* The state machine of a conversion: Document::from(&d), then a Replace *)

\* the documents handed to Document::from: the stored ones and what one patch
\* makes of them
InitConvert ==
    /\ doc \in InitDocs \cup {apply_patches(d, <<p>>) :
                                d \in InitDocs, p \in WellFormedPatches}
    /\ prev = doc
    /\ patches = <<>>
    /\ applied = 0
    /\ idx = 1
    /\ pc = "idle"
    /\ constructed = "Replace"
    /\ builder = BuilderIdle
    /\ call = CallNone
    /\ accepted = <<>>
    /\ reg = RegNone
    /\ oper = OperNone
    /\ ser = SerNone

\* Document::from(&doc), made the payload of a Replace patch
DocumentFromCall ==
    /\ pc = "idle"
    /\ patches' = <<Patch("Replace", Some(DocumentFrom(doc)), None, None, None)>>
    /\ pc' = "converted"
    /\ UNCHANGED <<doc, prev, applied, idx>>
    /\ UNCHANGED <<builderVars, registrarVars, codecVars, operatorVars>>

\* target.apply_patches(&patches) with the patch made of the conversion
ApplyConvertedCall ==
    /\ pc = "converted"
    /\ \E target \in InitDocs :
          /\ prev' = target
          /\ doc' = apply_patches(target, patches)
    /\ pc' = "replaced"
    /\ UNCHANGED <<patches, applied, idx>>
    /\ UNCHANGED <<builderVars, registrarVars, codecVars, operatorVars>>

NextConvert == DocumentFromCall \/ ApplyConvertedCall

SpecConvert == InitConvert /\ [][NextConvert]_vars

----------------------------------------------------------------------------
(* C34 *)

\* the payload of the patch the conversion made
Converted == Unwrap(patches[1].document)

\* no relationship category of d is present
NoCategories(d) == \A c \in Categories : d[c] = None

\* C34: the payload Document::from makes of a document has the document's
\* services and a key list that holds every method in order with no purposes
\* declared, absent when the document has no methods. Applied as a Replace,
\* the payload of a document that has methods makes these the method list
\* and leaves all five relationship categories absent.
C34_DocumentFrom ==
    /\ pc = "converted" =>
          /\ Converted.services = doc.service
          /\ IsSome(Converted.public_keys) = (Methods(doc) # <<>>)
          /\ MethodsOf(UnwrapOrDefault(Converted.public_keys)) = Methods(doc)
          /\ \A i \in 1..Len(UnwrapOrDefault(Converted.public_keys)) :
                Unwrap(Converted.public_keys)[i].purposes = None
          /\ Methods(doc) # <<>> =>
                \A target \in InitDocs :
                    /\ Methods(apply_patches(target, patches)) = Methods(doc)
                    /\ NoCategories(apply_patches(target, patches))
    /\ (pc = "replaced" /\ IsSome(Converted.public_keys)) =>
          /\ Methods(doc) = MethodsOf(Unwrap(Converted.public_keys))
          /\ NoCategories(doc)

\* the payload of a document with two methods has replaced the methods of a
\* document with embedded relationships: two methods, no category
C34_Witness ==
    /\ pc = "replaced"
    /\ Converted = DocumentFrom(DocTwoKeys)
    /\ prev = DocEmbedded
    /\ doc.verification_method = Some(<<K2, K1>>)
    /\ NoCategories(doc)

----------------------------------------------------------------------------
(* The state machine of did:key and did:jwk: one create call after another *)

\* what op.verification(KeyPurpose::VerificationMethod) returns: no key, or
\* a key with one of five x members
Verifications ==
    {None} \cup {Some(PublicKeyJwk(x)) :
                   x \in {"x-point-a", "x-point-b", "x-no-point", "x-16-bytes",
                          "x not base64"}}

\* PublicKeyFormat: the two the code names and one of the others
PublicKeyFormats == {"Multikey", "Ed25519VerificationKey2020", "JsonWebKey2020"}

\* the options handed to create, with two values of default_context
OptionsArgs ==
    {CreateOptions(f, c, e) :
        f \in PublicKeyFormats,
        c \in {"https://www.w3.org/ns/did/v1", "https://www.w3.org/ns/did/v1.1"},
        e \in BOOLEAN}

InitOperator ==
    /\ doc = DidDocumentDefault
    /\ prev = doc
    /\ patches = <<>>
    /\ applied = 0
    /\ idx = 1
    /\ pc = "idle"
    /\ constructed = "Replace"
    /\ builder = BuilderIdle
    /\ call = CallNone
    /\ accepted = <<>>
    /\ reg = RegNone
    /\ oper = OperNone
    /\ ser = SerNone

\* DidKey::create(op, options)
DidKeyCreateCall ==
    /\ \E verification \in Verifications, options \in OptionsArgs :
          LET r == DidKeyCreate(verification, options)
          IN oper' = [op |-> "DidKey::create", verification |-> verification,
                      options |-> options, err |-> r.err, value |-> r.value]
    /\ UNCHANGED <<engineVars, builderVars, registrarVars, codecVars>>

\* DidJwk::create(op, options)
DidJwkCreateCall ==
    /\ \E verification \in Verifications, options \in OptionsArgs :
          \* what PublicKey::Jwk(key).multibase() returns: Err, or a text
          \E multibase \in {None} \cup (IF IsSome(verification)
                                        THEN {Some(<<"multibase", Unwrap(verification).x>>)}
                                        ELSE {}) :
              LET r == DidJwkCreate(verification, options, multibase)
              IN oper' = [op |-> "DidJwk::create", verification |-> verification,
                          options |-> options, err |-> r.err, value |-> r.value]
    /\ UNCHANGED <<engineVars, builderVars, registrarVars, codecVars>>

NextOperator == DidKeyCreateCall \/ DidJwkCreateCall

SpecOperator == InitOperator /\ [][NextOperator]_vars

----------------------------------------------------------------------------
(* C31 *)

\* the last call was a create
CreateCalled == oper.op \in {"DidKey::create", "DidJwk::create"}

\* the list is the one reference, by id, to the key id
OneReference(list, kid) ==
    /\ IsSome(list)
    /\ Len(Unwrap(list)) = 1
    /\ Unwrap(list)[1].kind = "String"
    /\ Unwrap(list)[1].value = kid

\* C31: the document DidKey::create or DidJwk::create returns has exactly one
\* verification method, whose id is referenced by id in authentication,
\* assertionMethod, capabilityInvocation and capabilityDelegation; its
\* keyAgreement is one embedded method when enable_encryption_key_derivation
\* is set and absent otherwise. When the operator supplies no verification
\* key, or when DidKey::create is to derive a key for a public-key format
\* other than Multikey, create returns an error and no document.
C31_OperatorCreate ==
    CreateCalled =>
        /\ oper.err = "Ok" =>
              LET d == Unwrap(oper.value)
              IN /\ IsSome(oper.value)
                 /\ Len(Unwrap(d.verification_method)) = 1
                 /\ \A c \in {"authentication", "assertion_method",
                              "capability_invocation", "capability_delegation"} :
                       OneReference(d[c], Unwrap(d.verification_method)[1].id)
                 /\ IF oper.options.enable_encryption_key_derivation
                    THEN /\ IsSome(d.key_agreement)
                         /\ Len(Unwrap(d.key_agreement)) = 1
                         /\ Unwrap(d.key_agreement)[1].kind = "Object"
                    ELSE d.key_agreement = None
        /\ oper.verification = None => (oper.err # "Ok" /\ oper.value = None)
        /\ (oper.op = "DidKey::create"
              /\ oper.options.enable_encryption_key_derivation
              /\ oper.options.public_key_format # "Multikey")
             => (oper.err # "Ok" /\ oper.value = None)

\* DidKey::create has returned a document with a derived key agreement method
C31_Witness ==
    /\ oper.op = "DidKey::create"
    /\ oper.err = "Ok"
    /\ oper.options.enable_encryption_key_derivation
    /\ Unwrap(oper.value).key_agreement[1][1].kind = "Object"
    /\ Unwrap(oper.value).authentication[1][1].kind = "String"

====
